---- MODULE Spec2Model ----
(***************************************************************************)
(* The asset library: backend/src/index.ts and the AssetLibrary contract.  *)
(* The request handlers (submit a command, await the gateway's             *)
(* acknowledgment, store the intent or answer the error), the contract     *)
(* that executes accepted commands and emits events, the firefly.listen    *)
(* callback that moves metadata from pendingAssetMetadata to assetMetadata *)
(* and broadcasts every event with io.emit, and the Socket.IO clients that *)
(* receive the broadcasts.                                                 *)
(***************************************************************************)
EXTENDS Integers, Sequences, FiniteSets, TLC

\* ------------------------------------------------------------------ bounds
\* register-asset requests accepted by the gateway
MaxReq == 2
\* largest value of the millisecond clock Date.now()
MaxTime == 1
\* repeated deliveries of an event that was already handled
MaxDup == 1
\* events on the stream that are not well-formed AssetRegistered events
MaxOther == 1
\* the orphan timeout T of the design, in clock ticks: an intent is due to be
\* swept at the first tick after createdAt + T (the source sets no timeout)
ExpiryWindow == 0
\* checkOut / returnAsset commands accepted by the gateway
MaxCmd == 2
\* registerUser commands accepted by the gateway
MaxReg == 2
\* assets registered when the contract is called directly
MaxAssets == 2
\* largest block.timestamp
MaxBlockTime == 2
\* calls of one init() that the gateway refuses
MaxFaults == 2

\* ------------------------------------------------------------- identities
\* An address is a hex string; what matters of it here is whose it is and the
\* letter case it is written in.
Undefined == [id |-> "undefined", cs |-> "none"]

MEMBER_KEYS ==
  [member0 |-> [id |-> "f56d", cs |-> "lower"],
   member1 |-> [id |-> "5852", cs |-> "lower"]]

UserIds == DOMAIN MEMBER_KEYS

\* On the ledger an address is 20 bytes and has no letter case. The accounts
\* that call the contract are the members' keys.
Accounts == {MEMBER_KEYS[u].id : u \in UserIds}

\* address(0)
ZeroAddress == "0000"

\* the names registerUser is called with; the backend always passes ""
Names == {"", "Peter"}

\* no folding: the address as it is written
keepCase(addr) == addr

\* String.prototype.toLowerCase on an address
toLowerCase(addr) == [id |-> addr.id, cs |-> "lower"]

\* the letter cases in which the ledger may report an address
LedgerCases == {"lower", "mixed"}

\* request bodies' descriptions: the code stores and moves a description
\* without reading it, so every request carries one of its own
Descriptions == <<"Laptop", "Monitor", "Keyboard", "Dock", "Camera">>

\* ------------------------------------------------------------ conversions
Digits == <<"0", "1", "2", "3", "4", "5", "6", "7", "8", "9">>

RECURSIVE ToDecimal(_)
\* uint256 -> decimal string, as the gateway serialises event outputs
ToDecimal(n) ==
  IF n < 10 THEN <<Digits[n + 1]>>
  ELSE ToDecimal(n \div 10) \o <<Digits[(n % 10) + 1]>>

DigitValue(c) == CHOOSE d \in 0..9 : Digits[d + 1] = c

RECURSIVE parseInt(_)
\* parseInt on a decimal string
parseInt(s) ==
  IF Len(s) = 1 THEN DigitValue(s[1])
  ELSE 10 * parseInt(SubSeq(s, 1, Len(s) - 1)) + DigitValue(s[Len(s)])

\* ------------------------------------------------------------------ state
VARIABLES
  now,                  \* Date.now()
  ledgerCase,           \* the letter case in which the gateway writes addresses
  nextTxId,             \* the gateway's next provisional transaction id
  inflight,             \* request handlers suspended on `await invokeContractAPI`
  mempool,              \* commands the gateway accepted, not yet executed
  minted,               \* minted[e]: the transaction whose registerAsset created asset e
  lost,                 \* accepted commands that will never confirm
  stream,               \* events emitted by the ledger, not yet delivered
  delivered,            \* events the callback has been invoked with
  others,               \* deliveries of events that are not well-formed creations
  dups,                 \* repeated deliveries so far
  pendingAssetMetadata, \* entries [txId, metadata] in insertion order
  assetMetadata,        \* assetId -> metadata
  reconciledFrom,       \* assetId -> the txId its record was taken from
  matchedTx,            \* txIds of the intents matched so far
  unmatchedIds,         \* asset ids whose confirmation found nothing pending
  calls,                \* invocations of the callback
  emits,                \* io.emit calls
  last,                 \* the latest invocation of the callback: its event and
                        \* outcome, the candidate entries and the txId taken, and
                        \* whether it is the second of two successive matches for
                        \* one actor of which the first had two candidates or more
  lastEmit,             \* the latest io.emit
  isRegistered,         \* AssetLibrary.isRegistered
  userNames,            \* AssetLibrary.userNames
  assets,               \* AssetLibrary.assets, for the ids below nextAssetId
  nextAssetId,          \* AssetLibrary.nextAssetId
  blockTimestamp,       \* block.timestamp
  lastTx,               \* the latest call of the contract: its outcome and event
  regPool,              \* registerUser commands accepted, not yet executed
  cmdPool,              \* checkOut / returnAsset commands accepted, not yet executed
  cmds,                 \* checkOut / returnAsset commands accepted so far
  regs,                 \* registerUser commands accepted so far
  regInflight,          \* user-register handlers suspended on `await`
  userProfiles,         \* lower-case addresses that have a profile
  response,             \* the latest HTTP response sent
  halted,               \* the process has terminated
  boot,                 \* init(): the step it is at and what it has done
  cb,                   \* the statement the callback is at, and its locals
  connected,            \* Socket.IO clients connected now
  inbox,                \* what each client received since it last connected
  joinedAt,             \* the number of io.emit calls made before it connected
  lastFailed            \* the clients the latest io.emit could not deliver to

vars ==
  <<now, ledgerCase, nextTxId, inflight, mempool, minted, lost, stream, delivered, others,
    dups, pendingAssetMetadata, assetMetadata, reconciledFrom, matchedTx,
    unmatchedIds, calls, emits, last, lastEmit,
    isRegistered, userNames, assets, nextAssetId, blockTimestamp, lastTx,
    regPool, cmdPool, cmds, regs, regInflight, userProfiles, response, halted, boot, cb,
    connected, inbox, joinedAt, lastFailed>>

ledgerVars == <<mempool, minted, lost, stream>>
storeVars == <<pendingAssetMetadata, assetMetadata>>
matchVars == <<reconciledFrom, matchedTx, unmatchedIds>>
callbackVars == <<delivered, calls, emits, last, lastEmit>>
contractVars == <<isRegistered, userNames, assets, nextAssetId, blockTimestamp, lastTx>>
poolVars == <<regPool, cmdPool, cmds, regs>>
userVars == <<regInflight, userProfiles>>
observerVars == <<connected, inbox, joinedAt, lastFailed>>

Range(s) == {s[i] : i \in 1..Len(s)}

NoEvent ==
  [name |-> "", hasOutput |-> FALSE,
   output |-> [assetId |-> <<>>, registeredBy |-> Undefined]]

\* an entry of the contract's event log that is not there
NoLog == [name |-> "", assetId |-> 0, user |-> ZeroAddress, timestamp |-> 0]

NoMetadata == [description |-> "", createdBy |-> Undefined, createdAt |-> 0]

NoResponse == [route |-> "", status |-> 0, error |-> ""]

\* the observers (browser tabs) that may connect to the Socket.IO server
Observers == {"tab1", "tab2"}

\* the backend as its module has been loaded and init() has run
\* ------------------------------------------------------------- init()
\* the calls of init() in the order of the source. The three calls of a
\* contract are one promise chain with one catch at its end.
InitSteps ==
  <<"generateContractInterface(simplestorage)", "createContractInterface(simplestorage)",
    "createContractAPI(simplestorage)",
    "generateContractInterface(token)", "createContractInterface(token)",
    "createContractAPI(token)",
    "generateContractInterface(assetLibrary)", "createContractInterface(assetLibrary)",
    "createContractAPI(assetLibrary)",
    "createContractAPIListener(Changed)", "createContractAPIListener(Transfer)",
    "createContractAPIListener(UserRegistered)",
    "createContractAPIListener(AssetRegistered)",
    "createContractAPIListener(AssetCheckedOut)",
    "createContractAPIListener(AssetReturned)",
    "io.on(connection)", "firefly.listen", "httpServer.listen">>

\* the positions of the promise chains' calls; a chain's catch is after its
\* third call
ChainSteps == 1..9
ChainEnd(i) == 3 * ((i + 2) \div 3)

\* the positions of the listener creations, each with its own catch
ListenerSteps == 10..15

\* the steps that create something the gateway may already have
CreationSteps == (ChainSteps \ {1, 4, 7}) \cup ListenerSteps

\* init() has run to its end and nothing was refused
Started ==
  [pc |-> Len(InitSteps) + 1, ran |-> {InitSteps[i] : i \in 1..Len(InitSteps)},
   conflicts |-> {}, errors |-> {}, listener |-> TRUE, listening |-> TRUE]

\* the process has just been started: init() is at its first call
InitBoot ==
  boot = [pc |-> 1, ran |-> {}, conflicts |-> {}, errors |-> {},
          listener |-> FALSE, listening |-> FALSE]

InitBackend ==
  /\ now = 0
  /\ ledgerCase \in LedgerCases
  /\ nextTxId = 1
  /\ inflight = {}
  /\ mempool = {}
  /\ minted = <<>>
  /\ lost = {}
  /\ stream = <<>>
  /\ delivered = {}
  /\ others = 0
  /\ dups = 0
  /\ pendingAssetMetadata = <<>>
  /\ assetMetadata = <<>>
  /\ reconciledFrom = <<>>
  /\ matchedTx = {}
  /\ unmatchedIds = {}
  /\ calls = 0
  /\ emits = 0
  /\ last = [event |-> NoEvent, outcome |-> "none", candidates |-> <<>>, txId |-> 0, second |-> FALSE]
  /\ lastEmit = NoEvent
  /\ regPool = {}
  /\ cmdPool = {}
  /\ cmds = 0
  /\ regs = 0
  /\ regInflight = {}
  /\ response = NoResponse
  /\ halted = FALSE
  /\ cb = [pc |-> "idle", event |-> NoEvent, txId |-> 0, metadata |-> NoMetadata]
  /\ connected = {}
  /\ inbox = [o \in Observers |-> <<>>]
  /\ joinedAt = [o \in Observers |-> 0]
  /\ lastFailed = {}

\* AssetLibrary's constructor has run
InitContract ==
  /\ isRegistered = [a \in Accounts |-> FALSE]
  /\ userNames = [a \in Accounts |-> ""]
  /\ assets = <<>>
  /\ nextAssetId = 1
  /\ blockTimestamp = 1
  /\ lastTx = [method |-> "constructor", sender |-> ZeroAddress, assetId |-> 0,
               error |-> "none", event |-> NoLog]

\* a fresh deployment: nobody has registered
\* the process has just been started against a fresh deployment
InitStart ==
  /\ InitBackend
  /\ InitContract
  /\ userProfiles = {}
  /\ InitBoot

InitFresh ==
  /\ InitBackend
  /\ InitContract
  /\ userProfiles = {}
  /\ boot = Started

\* a fresh deployment looked at on the ledger's side only
InitLibrary ==
  /\ InitFresh
  /\ ledgerCase = "lower"

\* member0 has registered and its registerUser has confirmed; member1 has not
\* registered yet
InitOneMember ==
  /\ InitBackend
  /\ isRegistered = [a \in Accounts |-> a = MEMBER_KEYS["member0"].id]
  /\ userNames = [a \in Accounts |-> ""]
  /\ assets = <<>>
  /\ nextAssetId = 1
  /\ blockTimestamp = 1
  /\ lastTx = [method |-> "registerUser", sender |-> MEMBER_KEYS["member0"].id,
               assetId |-> 0, error |-> "none",
               event |-> [name |-> "UserRegistered", assetId |-> 0,
                          user |-> MEMBER_KEYS["member0"].id, timestamp |-> 0]]
  /\ userProfiles = {toLowerCase(MEMBER_KEYS["member0"])}
  /\ boot = Started

\* The state in which the reconciliation is studied: both members have
\* registered through POST /api/user/register and their registerUser
\* commands have confirmed; no asset exists.
Init ==
  /\ InitBackend
  /\ isRegistered = [a \in Accounts |-> \E u \in UserIds : MEMBER_KEYS[u].id = a]
  /\ userNames = [a \in Accounts |-> ""]
  /\ assets = <<>>
  /\ nextAssetId = 1
  /\ blockTimestamp = 1
  /\ lastTx = [method |-> "registerUser", sender |-> MEMBER_KEYS["member1"].id,
               assetId |-> 0, error |-> "none",
               event |-> [name |-> "UserRegistered", assetId |-> 0,
                          user |-> MEMBER_KEYS["member1"].id, timestamp |-> 0]]
  /\ userProfiles = {toLowerCase(MEMBER_KEYS[u]) : u \in UserIds}
  /\ boot = Started

\* -------------------------------------------------------------- the clock
\* Date.now() never runs backwards; two readings may be equal.
Tick ==
  /\ now < MaxTime
  /\ now' = now + 1
  /\ UNCHANGED <<ledgerCase, nextTxId, inflight, others, dups>>
  /\ UNCHANGED ledgerVars
  /\ UNCHANGED storeVars
  /\ UNCHANGED matchVars
  /\ UNCHANGED callbackVars
  /\ UNCHANGED <<contractVars, poolVars, userVars, response, halted, boot, cb, observerVars>>

\* ------------------------------------------------ contract AssetLibrary
\* the zero value a mapping reads as where nothing was stored
EmptyAsset ==
  [id |-> 0, exists |-> FALSE, isAvailable |-> FALSE,
   currentHolder |-> ZeroAddress, checkoutTime |-> 0]

\* assets[assetId]
AssetAt(assetId) ==
  IF assetId \in DOMAIN assets THEN assets[assetId] ELSE EmptyAsset

Outcome(method, sender, assetId, error, event) ==
  [method |-> method, sender |-> sender, assetId |-> assetId,
   error |-> error, event |-> event]

\* revert: the call leaves the contract's storage as it was and logs nothing
Revert(method, sender, assetId, error) ==
  /\ lastTx' = Outcome(method, sender, assetId, error, NoLog)
  /\ UNCHANGED <<isRegistered, userNames, assets, nextAssetId>>

\* the modifier dropped: every caller passes
onlyRegisteredAnyone(sender) == "none"

\* modifier onlyRegistered: the error it reverts with, or "none"
onlyRegistered(sender) ==
  IF ~isRegistered[sender] THEN "NotRegistered" ELSE "none"

\* a second registerUser revokes the registration
registerUserToggles(sender, name) ==
  /\ userNames' = [userNames EXCEPT ![sender] = name]
  /\ isRegistered' = [isRegistered EXCEPT ![sender] = ~isRegistered[sender]]
  /\ lastTx' = Outcome("registerUser", sender, 0, "none",
                       [name |-> "UserRegistered", assetId |-> 0,
                        user |-> sender, timestamp |-> 0])
  /\ UNCHANGED <<assets, nextAssetId>>

registerUser(sender, name) ==
  /\ userNames' = [userNames EXCEPT ![sender] = name]
  /\ isRegistered' = [isRegistered EXCEPT ![sender] = TRUE]
  /\ lastTx' = Outcome("registerUser", sender, 0, "none",
                       [name |-> "UserRegistered", assetId |-> 0,
                        user |-> sender, timestamp |-> 0])
  /\ UNCHANGED <<assets, nextAssetId>>

registerAsset(sender) ==
  IF onlyRegistered(sender) # "none"
  THEN Revert("registerAsset", sender, 0, onlyRegistered(sender))
  ELSE LET assetId == nextAssetId IN
         /\ nextAssetId' = nextAssetId + 1
         /\ assets' = [k \in (DOMAIN assets) \cup {assetId} |->
                         IF k = assetId
                         THEN [id |-> assetId, exists |-> TRUE, isAvailable |-> TRUE,
                               currentHolder |-> ZeroAddress, checkoutTime |-> 0]
                         ELSE assets[k]]
         /\ lastTx' = Outcome("registerAsset", sender, assetId, "none",
                              [name |-> "AssetRegistered", assetId |-> assetId,
                               user |-> sender, timestamp |-> 0])
         /\ UNCHANGED <<isRegistered, userNames>>

\* checkOut without `if (!asset.isAvailable) revert AssetNotAvailable`
checkOutErrorNoAvailabilityCheck(sender, assetId) ==
  IF onlyRegistered(sender) # "none" THEN onlyRegistered(sender)
  ELSE IF ~AssetAt(assetId).exists THEN "AssetNotFound"
  ELSE "none"

\* the error checkOut reverts with in the current state, or "none"
checkOutError(sender, assetId) ==
  IF onlyRegistered(sender) # "none" THEN onlyRegistered(sender)
  ELSE IF ~AssetAt(assetId).exists THEN "AssetNotFound"
  ELSE IF ~AssetAt(assetId).isAvailable THEN "AssetNotAvailable"
  ELSE "none"

\* checkOut without `asset.isAvailable = false`
checkOutStaysAvailable(sender, assetId) ==
  IF checkOutError(sender, assetId) # "none"
  THEN Revert("checkOut", sender, assetId, checkOutError(sender, assetId))
  ELSE /\ assets' = [assets EXCEPT ![assetId] =
                       [@ EXCEPT !.currentHolder = sender,
                                 !.checkoutTime = blockTimestamp]]
       /\ lastTx' = Outcome("checkOut", sender, assetId, "none",
                            [name |-> "AssetCheckedOut", assetId |-> assetId,
                             user |-> sender, timestamp |-> blockTimestamp])
       /\ UNCHANGED <<isRegistered, userNames, nextAssetId>>

checkOut(sender, assetId) ==
  IF checkOutError(sender, assetId) # "none"
  THEN Revert("checkOut", sender, assetId, checkOutError(sender, assetId))
  ELSE /\ assets' = [assets EXCEPT ![assetId] =
                       [@ EXCEPT !.isAvailable = FALSE,
                                 !.currentHolder = sender,
                                 !.checkoutTime = blockTimestamp]]
       /\ lastTx' = Outcome("checkOut", sender, assetId, "none",
                            [name |-> "AssetCheckedOut", assetId |-> assetId,
                             user |-> sender, timestamp |-> blockTimestamp])
       /\ UNCHANGED <<isRegistered, userNames, nextAssetId>>

\* returnAsset without `if (asset.currentHolder != msg.sender) revert`
returnAssetErrorNoHolderCheck(sender, assetId) ==
  IF onlyRegistered(sender) # "none" THEN onlyRegistered(sender)
  ELSE IF ~AssetAt(assetId).exists THEN "AssetNotFound"
  ELSE IF AssetAt(assetId).isAvailable THEN "AssetNotCheckedOut"
  ELSE "none"

\* the error returnAsset reverts with in the current state, or "none"
returnAssetError(sender, assetId) ==
  IF onlyRegistered(sender) # "none" THEN onlyRegistered(sender)
  ELSE IF ~AssetAt(assetId).exists THEN "AssetNotFound"
  ELSE IF AssetAt(assetId).isAvailable THEN "AssetNotCheckedOut"
  ELSE IF AssetAt(assetId).currentHolder # sender THEN "NotCurrentHolder"
  ELSE "none"

\* returnAsset without `asset.currentHolder = address(0)`
returnAssetKeepsHolder(sender, assetId) ==
  IF returnAssetError(sender, assetId) # "none"
  THEN Revert("returnAsset", sender, assetId, returnAssetError(sender, assetId))
  ELSE /\ assets' = [assets EXCEPT ![assetId] =
                       [@ EXCEPT !.isAvailable = TRUE, !.checkoutTime = 0]]
       /\ lastTx' = Outcome("returnAsset", sender, assetId, "none",
                            [name |-> "AssetReturned", assetId |-> assetId,
                             user |-> sender, timestamp |-> blockTimestamp])
       /\ UNCHANGED <<isRegistered, userNames, nextAssetId>>

returnAsset(sender, assetId) ==
  IF returnAssetError(sender, assetId) # "none"
  THEN Revert("returnAsset", sender, assetId, returnAssetError(sender, assetId))
  ELSE /\ assets' = [assets EXCEPT ![assetId] =
                       [@ EXCEPT !.isAvailable = TRUE,
                                 !.currentHolder = ZeroAddress,
                                 !.checkoutTime = 0]]
       /\ lastTx' = Outcome("returnAsset", sender, assetId, "none",
                            [name |-> "AssetReturned", assetId |-> assetId,
                             user |-> sender, timestamp |-> blockTimestamp])
       /\ UNCHANGED <<isRegistered, userNames, nextAssetId>>

\* getAssetCount returning nextAssetId
getAssetCountOffByOne == nextAssetId

\* getAssetCount(): nextAssetId - 1
getAssetCount == nextAssetId - 1

\* getAsset(assetId): the asset, or the error the view reverts with
getAsset(assetId) ==
  IF ~AssetAt(assetId).exists
  THEN [error |-> "AssetNotFound", output |-> EmptyAsset]
  ELSE [error |-> "none", output |-> AssetAt(assetId)]

\* isUserRegistered(user)
isUserRegistered(user) == isRegistered[user]

\* everything that is not the contract's
backendVars ==
  <<now, ledgerCase, nextTxId, inflight, others, dups, ledgerVars, storeVars,
    matchVars, callbackVars, poolVars, userVars, response, halted, boot, cb,
    observerVars>>

\* the asset ids a call is made with: 0 is the id of no asset
AssetIds == 0..MaxAssets

\* a block is produced: block.timestamp grows
NewBlock ==
  /\ blockTimestamp < MaxBlockTime
  /\ blockTimestamp' = blockTimestamp + 1
  /\ UNCHANGED <<isRegistered, userNames, assets, nextAssetId, lastTx>>
  /\ UNCHANGED backendVars

\* transactions sent to the contract by any account
CallRegisterUser(sender, name) ==
  /\ registerUser(sender, name)
  /\ UNCHANGED blockTimestamp
  /\ UNCHANGED backendVars

CallRegisterAsset(sender) ==
  /\ nextAssetId <= MaxAssets
  /\ registerAsset(sender)
  /\ UNCHANGED blockTimestamp
  /\ UNCHANGED backendVars

CallCheckOut(sender, assetId) ==
  /\ checkOut(sender, assetId)
  /\ UNCHANGED blockTimestamp
  /\ UNCHANGED backendVars

CallReturnAsset(sender, assetId) ==
  /\ returnAsset(sender, assetId)
  /\ UNCHANGED blockTimestamp
  /\ UNCHANGED backendVars

\* ------------------------------------------------------ the event loop
\* no handler is preempted: TRUE at every statement of a function body
Preemptible == TRUE

\* A function body without `await` runs from its first statement to its last
\* before the event loop starts another handler or callback.
RunToCompletion == cb.pc = "idle"

\* the process is alive and the event loop is free to start a handler
Ready == ~halted /\ RunToCompletion

\* ------------------------------------------------------------ the gateway
\* What firefly.invokeContractAPI does with a call that would revert: before
\* it accepts a command the gateway runs the call on the current state of the
\* contract, and a call that reverts is refused with the contract's error.
Preflight(method, sender, assetId) ==
  CASE method = "registerUser" -> "none"
    [] method = "registerAsset" -> onlyRegistered(sender)
    [] method = "checkOut" -> checkOutError(sender, assetId)
    [] method = "returnAsset" -> returnAssetError(sender, assetId)

\* the errors an invocation may throw: the gateway cannot be reached, or the
\* preflight's refusal
GatewayErrors(method, sender, assetId) ==
  {"ECONNREFUSED"} \cup ({Preflight(method, sender, assetId)} \ {"none"})

\* e.message?.includes('NotRegistered'): the message of a refusal carries the
\* name of the contract's error
includesNotRegistered(error) == error = "NotRegistered"

Response(route, status, error) ==
  [route |-> route, status |-> status, error |-> error]

\* --------------------------------------------- POST /api/user/register
\* Up to the await: registerUser is handed to the gateway, which accepts it.
SubmitRegisterUser(userId) ==
  /\ Ready
  /\ regs < MaxReg
  /\ userId \notin regInflight
  /\ regInflight' = regInflight \cup {userId}
  /\ regPool' = regPool \cup {MEMBER_KEYS[userId].id}
  /\ regs' = regs + 1
  /\ UNCHANGED <<now, ledgerCase, nextTxId, inflight, others, dups, cmdPool, cmds,
                  userProfiles, response, halted, boot, cb>>
  /\ UNCHANGED <<ledgerVars, storeVars, matchVars, callbackVars, contractVars,
                  observerVars>>

\* After the await: the profile is stored under the lower-case address.
AckRegisterUser(userId) ==
  /\ Ready
  /\ userId \in regInflight
  /\ regInflight' = regInflight \ {userId}
  /\ userProfiles' = userProfiles \cup {toLowerCase(MEMBER_KEYS[userId])}
  /\ response' = Response("/api/user/register", 202, "")
  /\ UNCHANGED <<now, ledgerCase, nextTxId, inflight, others, dups, halted, boot, cb>>
  /\ UNCHANGED <<ledgerVars, storeVars, matchVars, callbackVars, contractVars,
                  poolVars, observerVars>>

\* ------------------------------------------- POST /api/asset/register
\* Up to the await: the userId is looked up and the command is handed to the
\* gateway, which accepts it under a fresh transaction id.
SubmitRegisterAsset(userId, description) ==
  /\ Ready
  /\ nextTxId <= MaxReq
  /\ Preflight("registerAsset", MEMBER_KEYS[userId].id, 0) = "none"
  /\ LET signingKey == MEMBER_KEYS[userId] IN
       /\ inflight' = inflight \cup
            {[tx |-> nextTxId, signingKey |-> signingKey, description |-> description]}
       /\ mempool' = mempool \cup {[tx |-> nextTxId, sender |-> signingKey]}
  /\ nextTxId' = nextTxId + 1
  /\ UNCHANGED <<now, ledgerCase, others, dups, minted, lost, stream>>
  /\ UNCHANGED storeVars
  /\ UNCHANGED matchVars
  /\ UNCHANGED callbackVars
  /\ UNCHANGED <<contractVars, poolVars, userVars, response, halted, boot, cb, observerVars>>

\* After the await: the acknowledgment carries the transaction id and the
\* handler stores the intent under it. Handlers resume in any order. The
\* description stands for the whole payload (description, category, location).
\* Transaction ids are UUID strings, so Object.entries lists the entries in
\* the order they were stored: a new key goes to the end of the sequence.
AckRegisterAsset(h) ==
  /\ Ready
  /\ h \in inflight
  /\ inflight' = inflight \ {h}
  /\ pendingAssetMetadata' = Append(pendingAssetMetadata,
       [txId |-> h.tx,
        metadata |-> [description |-> h.description,
                      createdBy |-> h.signingKey,
                      createdAt |-> now]])
  /\ response' = Response("/api/asset/register", 202, "")
  /\ UNCHANGED <<now, ledgerCase, nextTxId, others, dups, assetMetadata>>
  /\ UNCHANGED ledgerVars
  /\ UNCHANGED matchVars
  /\ UNCHANGED callbackVars
  /\ UNCHANGED <<contractVars, poolVars, userVars, halted, boot, cb, observerVars>>

\* the intent written before the await, under a key the gateway never issued
FailRegisterAssetAfterStoring(userId, error) ==
  /\ Ready
  /\ error \in GatewayErrors("registerAsset", MEMBER_KEYS[userId].id, 0)
  /\ pendingAssetMetadata' = Append(pendingAssetMetadata,
       [txId |-> 0,
        metadata |-> [description |-> Descriptions[1],
                      createdBy |-> MEMBER_KEYS[userId],
                      createdAt |-> now]])
  /\ response' = Response("/api/asset/register", 500, error)
  /\ UNCHANGED <<now, ledgerCase, nextTxId, inflight, others, dups, assetMetadata,
                  halted, boot, cb>>
  /\ UNCHANGED <<ledgerVars, matchVars, callbackVars, contractVars, poolVars,
                  userVars, observerVars>>

\* invokeContractAPI throws: the catch answers 500 with the error's message
\* and the handler has written nothing.
FailRegisterAsset(userId, error) ==
  /\ Ready
  /\ error \in GatewayErrors("registerAsset", MEMBER_KEYS[userId].id, 0)
  /\ response' = Response("/api/asset/register", 500, error)
  /\ UNCHANGED <<now, ledgerCase, nextTxId, inflight, others, dups, halted, boot, cb>>
  /\ UNCHANGED <<ledgerVars, storeVars, matchVars, callbackVars, contractVars,
                  poolVars, userVars, observerVars>>

\* ------------------------------------------- POST /api/asset/checkout
\* The gateway accepts checkOut; the handler answers 202. Nothing is written
\* after the await, so acceptance and answer are one step.
CheckoutAsset(userId, assetId) ==
  /\ Ready
  /\ cmds < MaxCmd
  /\ Preflight("checkOut", MEMBER_KEYS[userId].id, assetId) = "none"
  /\ cmdPool' = cmdPool \cup
       {[method |-> "checkOut", sender |-> MEMBER_KEYS[userId].id, assetId |-> assetId]}
  /\ cmds' = cmds + 1
  /\ response' = Response("/api/asset/checkout", 202, "")
  /\ UNCHANGED <<now, ledgerCase, nextTxId, inflight, others, dups, regPool, regs,
                  halted, boot, cb>>
  /\ UNCHANGED <<ledgerVars, storeVars, matchVars, callbackVars, contractVars,
                  userVars, observerVars>>

\* invokeContractAPI throws: 409 when the message names NotRegistered, else 500
FailCheckoutAsset(userId, assetId, error) ==
  /\ Ready
  /\ error \in GatewayErrors("checkOut", MEMBER_KEYS[userId].id, assetId)
  /\ response' = Response("/api/asset/checkout",
                          IF includesNotRegistered(error) THEN 409 ELSE 500, error)
  /\ UNCHANGED <<now, ledgerCase, nextTxId, inflight, others, dups, halted, boot, cb>>
  /\ UNCHANGED <<ledgerVars, storeVars, matchVars, callbackVars, contractVars,
                  poolVars, userVars, observerVars>>

\* --------------------------------------------- POST /api/asset/return
ReturnAsset(userId, assetId) ==
  /\ Ready
  /\ cmds < MaxCmd
  /\ Preflight("returnAsset", MEMBER_KEYS[userId].id, assetId) = "none"
  /\ cmdPool' = cmdPool \cup
       {[method |-> "returnAsset", sender |-> MEMBER_KEYS[userId].id, assetId |-> assetId]}
  /\ cmds' = cmds + 1
  /\ response' = Response("/api/asset/return", 202, "")
  /\ UNCHANGED <<now, ledgerCase, nextTxId, inflight, others, dups, regPool, regs,
                  halted, boot, cb>>
  /\ UNCHANGED <<ledgerVars, storeVars, matchVars, callbackVars, contractVars,
                  userVars, observerVars>>

FailReturnAsset(userId, assetId, error) ==
  /\ Ready
  /\ error \in GatewayErrors("returnAsset", MEMBER_KEYS[userId].id, assetId)
  /\ response' = Response("/api/asset/return",
                          IF includesNotRegistered(error) THEN 409 ELSE 500, error)
  /\ UNCHANGED <<now, ledgerCase, nextTxId, inflight, others, dups, halted, boot, cb>>
  /\ UNCHANGED <<ledgerVars, storeVars, matchVars, callbackVars, contractVars,
                  poolVars, userVars, observerVars>>

\* -------------------------------------------------------------- the ledger
AssetRegistered(assetId, registeredBy) ==
  [name |-> "AssetRegistered",
   hasOutput |-> TRUE,
   output |-> [assetId |-> ToDecimal(assetId), registeredBy |-> registeredBy]]

\* An entry of the contract's event log as the gateway delivers it: the name
\* and the output, numbers as decimal strings and addresses in the gateway's
\* letter case. Of the output the backend reads assetId and registeredBy only;
\* the other fields (user, name, timestamp) are passed through unread.
BlockchainEvent(log) ==
  IF log.name = "AssetRegistered"
  THEN AssetRegistered(log.assetId, [id |-> log.user, cs |-> ledgerCase])
  ELSE [name |-> log.name, hasOutput |-> TRUE,
        output |-> [assetId |-> IF log.name = "UserRegistered" THEN <<>>
                                ELSE ToDecimal(log.assetId),
                    registeredBy |-> Undefined]]

\* AssetLibrary.registerAsset executes for the oldest accepted command of some
\* sender (transaction ids grow in the order of acceptance): the asset gets
\* the next id and AssetRegistered is emitted. A command that reverts never
\* confirms.
Mine(c) ==
  /\ c \in mempool
  /\ \A d \in mempool : d.sender = c.sender => c.tx <= d.tx
  /\ registerAsset(c.sender.id)
  /\ IF lastTx'.error = "none"
     THEN /\ stream' = Append(stream, BlockchainEvent(lastTx'.event))
          /\ minted' = Append(minted, c.tx)
          /\ UNCHANGED lost
     ELSE /\ lost' = lost \cup {c.tx}
          /\ UNCHANGED <<stream, minted>>
  /\ mempool' = mempool \ {c}
  /\ UNCHANGED <<now, ledgerCase, nextTxId, inflight, others, dups>>
  /\ UNCHANGED storeVars
  /\ UNCHANGED matchVars
  /\ UNCHANGED callbackVars
  /\ UNCHANGED <<blockTimestamp, poolVars, userVars, response, halted, boot, cb, observerVars>>

\* An acknowledged command that never confirms (dropped or reverted): the
\* acknowledgment is returned before the command is executed.
Drop(c) ==
  /\ c \in mempool
  /\ lost' = lost \cup {c.tx}
  /\ mempool' = mempool \ {c}
  /\ UNCHANGED <<now, ledgerCase, nextTxId, inflight, others, dups, minted, stream>>
  /\ UNCHANGED storeVars
  /\ UNCHANGED matchVars
  /\ UNCHANGED callbackVars
  /\ UNCHANGED <<contractVars, poolVars, userVars, response, halted, boot, cb, observerVars>>

\* AssetLibrary.registerUser executes for an accepted command; the backend
\* passes the empty name.
MineRegisterUser(sender) ==
  /\ sender \in regPool
  /\ registerUser(sender, "")
  /\ stream' = Append(stream, BlockchainEvent(lastTx'.event))
  /\ regPool' = regPool \ {sender}
  /\ UNCHANGED <<now, ledgerCase, nextTxId, inflight, others, dups, mempool, minted,
                  lost, blockTimestamp, cmdPool, cmds, regs, response, halted, boot, cb>>
  /\ UNCHANGED <<storeVars, matchVars, callbackVars, userVars, observerVars>>

\* AssetLibrary.checkOut or returnAsset executes for an accepted command; the
\* state may have changed since the preflight, and a call that reverts emits
\* nothing.
MineCommand(c) ==
  /\ c \in cmdPool
  /\ IF c.method = "checkOut"
     THEN checkOut(c.sender, c.assetId)
     ELSE returnAsset(c.sender, c.assetId)
  /\ stream' = IF lastTx'.error = "none"
               THEN Append(stream, BlockchainEvent(lastTx'.event))
               ELSE stream
  /\ cmdPool' = cmdPool \ {c}
  /\ UNCHANGED <<now, ledgerCase, nextTxId, inflight, others, dups, mempool, minted,
                  lost, blockTimestamp, regPool, cmds, regs, response, halted, boot, cb>>
  /\ UNCHANGED <<storeVars, matchVars, callbackVars, userVars, observerVars>>

\* Events other than a well-formed AssetRegistered that reach the callback:
\* another contract event, a creation event without output, and a creation
\* event whose output has no registeredBy.
OtherEvents ==
  { [name |-> "AssetCheckedOut", hasOutput |-> TRUE,
     output |-> [assetId |-> ToDecimal(1), registeredBy |-> Undefined]],
    [name |-> "AssetRegistered", hasOutput |-> FALSE,
     output |-> [assetId |-> <<>>, registeredBy |-> Undefined]],
    [name |-> "AssetRegistered", hasOutput |-> TRUE,
     output |-> [assetId |-> ToDecimal(1), registeredBy |-> Undefined]] }

\* ------------------------------------------- the firefly.listen callback
\* (a, b) => a[1].createdAt - b[1].createdAt
compareCreatedAt(a, b) == a.metadata.createdAt - b.metadata.createdAt

RECURSIVE InsertSorted(_, _)
\* x placed behind every element that does not compare greater than it
InsertSorted(x, s) ==
  IF s = <<>> THEN <<x>>
  ELSE IF compareCreatedAt(Head(s), x) <= 0
       THEN <<Head(s)>> \o InsertSorted(x, Tail(s))
       ELSE <<x>> \o s

RECURSIVE StableSort(_)
\* Array.prototype.sort with the comparator above: ascending and stable
StableSort(s) ==
  IF s = <<>> THEN <<>>
  ELSE InsertSorted(s[Len(s)], StableSort(SubSeq(s, 1, Len(s) - 1)))

\* the comparator's operands swapped: b[1].createdAt - a[1].createdAt
sortedEntriesNewestFirst(entries) ==
  [i \in 1..Len(entries) |-> StableSort(entries)[Len(entries) + 1 - i]]

sortedEntries(entries) == StableSort(entries)

\* the filter dropped: every pending entry is a candidate
creatorEntriesAnyActor(creatorAddress) == pendingAssetMetadata

\* Object.entries(pendingAssetMetadata).filter(... createdBy.toLowerCase() === creatorAddress)
creatorEntries(creatorAddress) ==
  SelectSeq(pendingAssetMetadata,
            LAMBDA en : toLowerCase(en.metadata.createdBy) = creatorAddress)

\* the store as an array: assetMetadata.push(metadata)
PutMetadataPush(assetId, metadata) ==
  LET slot == Cardinality(DOMAIN assetMetadata) + 1 IN
    [k \in (DOMAIN assetMetadata) \cup {slot} |->
       IF k = slot THEN metadata ELSE assetMetadata[k]]

\* assetMetadata[assetId] = metadata
PutMetadata(assetId, metadata) ==
  [k \in (DOMAIN assetMetadata) \cup {assetId} |->
     IF k = assetId THEN metadata ELSE assetMetadata[k]]

\* one slot per actor: the creator's other entries go with the one matched
DeletePendingOfCreator(txId) ==
  LET matched == CHOOSE en \in Range(pendingAssetMetadata) : en.txId = txId IN
    SelectSeq(pendingAssetMetadata,
              LAMBDA en : en.metadata.createdBy # matched.metadata.createdBy)

\* delete pendingAssetMetadata[txId]
DeletePending(txId) ==
  SelectSeq(pendingAssetMetadata, LAMBDA en : en.txId # txId)

\* the test of the event's name dropped: `if (eventOutput)`
IsCreationAnyName(ev) == ev.hasOutput

\* eventName === 'AssetRegistered' && eventOutput
IsCreation(ev) == ev.name = "AssetRegistered" /\ ev.hasOutput

\* eventOutput.registeredBy.toLowerCase() on a missing field: TypeError
Throws(ev) == IsCreation(ev) /\ ev.output.registeredBy = Undefined

\* the else branch writing an empty record for the asset
NoPendingMetadataStoresEmpty(ev, assetId) ==
  /\ unmatchedIds' = unmatchedIds \cup {assetId}
  /\ last' = [event |-> ev, outcome |-> "unmatched",
              candidates |-> <<>>, txId |-> 0, second |-> FALSE]
  /\ assetMetadata' = PutMetadata(assetId, NoMetadata)
  /\ UNCHANGED <<pendingAssetMetadata, reconciledFrom, matchedTx>>

\* else: console.warn(`No pending metadata found for creator ...`)
NoPendingMetadata(ev, assetId) ==
  /\ unmatchedIds' = unmatchedIds \cup {assetId}
  /\ last' = [event |-> ev, outcome |-> "unmatched",
              candidates |-> <<>>, txId |-> 0, second |-> FALSE]
  /\ UNCHANGED <<pendingAssetMetadata, assetMetadata, reconciledFrom,
                  matchedTx>>

\* the body of `if (eventName === 'AssetRegistered' && eventOutput)`
Reconcile(ev) ==
  LET assetId == parseInt(ev.output.assetId)
      creatorAddress == toLowerCase(ev.output.registeredBy)
      entries == creatorEntries(creatorAddress)
  IN IF Len(entries) > 0
     THEN LET first == sortedEntries(entries)[1] IN
            /\ assetMetadata' = PutMetadata(assetId, first.metadata)
            /\ pendingAssetMetadata' = DeletePending(first.txId)
            /\ reconciledFrom' =
                 [k \in (DOMAIN reconciledFrom) \cup {assetId} |->
                    IF k = assetId THEN first.txId ELSE reconciledFrom[k]]
            /\ matchedTx' = matchedTx \cup {first.txId}
            /\ last' = [event |-> ev, outcome |-> "matched",
                        candidates |-> entries, txId |-> first.txId,
                        second |-> /\ last.outcome = "matched"
                                   /\ last.candidates[1].metadata.createdBy
                                        = first.metadata.createdBy
                                   /\ Len(last.candidates) >= 2]
            /\ UNCHANGED unmatchedIds
     ELSE NoPendingMetadata(ev, assetId)

\* the message of one io.emit; seq is its position among the io.emit calls
Message(ev, seq) ==
  [seq |-> seq, name |-> ev.name, hasOutput |-> ev.hasOutput, output |-> ev.output]

\* a client's socket is gone: what it held of its session is gone with it
Closed(o, failed) == o \notin connected \/ o \in failed

\* each client's messages kept newest first
EmitNewestFirst(ev) ==
  /\ emits' = emits + 1
  /\ lastEmit' = ev
  /\ \E failed \in SUBSET connected :
       /\ lastFailed' = failed
       /\ connected' = connected \ failed
       /\ inbox' = [o \in Observers |->
                      IF Closed(o, failed) THEN <<>>
                      ELSE <<Message(ev, emits + 1)>> \o inbox[o]]
       /\ joinedAt' = [o \in Observers |-> IF Closed(o, failed) THEN 0 ELSE joinedAt[o]]

\* a failed delivery aborts the emit: no client receives the message
EmitAbortsOnFailure(ev) ==
  /\ emits' = emits + 1
  /\ lastEmit' = ev
  /\ \E failed \in SUBSET connected :
       /\ lastFailed' = failed
       /\ connected' = connected \ failed
       /\ inbox' = [o \in Observers |->
                      IF Closed(o, failed) THEN <<>>
                      ELSE IF failed # {} THEN inbox[o]
                      ELSE Append(inbox[o], Message(ev, emits + 1))]
       /\ joinedAt' = [o \in Observers |-> IF Closed(o, failed) THEN 0 ELSE joinedAt[o]]

\* io.emit(eventName, {name, output, timestamp}): the message is written to
\* the socket of every connected client, in the order of the calls. A client
\* whose delivery fails does not receive it and its socket closes; the call
\* does not throw.
Emit(ev) ==
  /\ emits' = emits + 1
  /\ lastEmit' = ev
  /\ \E failed \in SUBSET connected :
       /\ lastFailed' = failed
       /\ connected' = connected \ failed
       /\ inbox' = [o \in Observers |->
                      IF Closed(o, failed) THEN <<>>
                      ELSE Append(inbox[o], Message(ev, emits + 1))]
       /\ joinedAt' = [o \in Observers |-> IF Closed(o, failed) THEN 0 ELSE joinedAt[o]]

\* One invocation of the callback with event ev. The callback has no await:
\* it runs from its first line to its last without another handler between.
\* A TypeError thrown in it rejects the promise the async function returns;
\* nothing in the callback catches it, and whether the process survives the
\* rejection is for the caller and the runtime to decide.
Callback(ev) ==
  /\ calls' = calls + 1
  /\ delivered' = delivered \cup {ev}
  /\ IF Throws(ev)
     THEN /\ last' = [event |-> ev, outcome |-> "threw",
                      candidates |-> <<>>, txId |-> 0, second |-> FALSE]
          /\ halted' \in BOOLEAN
          /\ UNCHANGED boot
          /\ UNCHANGED <<pendingAssetMetadata, assetMetadata, reconciledFrom,
                          matchedTx, unmatchedIds, emits, lastEmit>>
          /\ UNCHANGED observerVars
     ELSE /\ IF IsCreation(ev)
             THEN Reconcile(ev)
             ELSE /\ last' = [event |-> ev, outcome |-> "forwarded",
                              candidates |-> <<>>, txId |-> 0, second |-> FALSE]
                  /\ UNCHANGED <<pendingAssetMetadata, assetMetadata,
                                  reconciledFrom, matchedTx, unmatchedIds>>
          /\ Emit(ev)
          /\ UNCHANGED <<halted, boot>>

\* the next event of the ledger's stream is delivered
Deliver ==
  /\ Ready
  /\ stream # <<>>
  /\ Callback(Head(stream))
  /\ stream' = Tail(stream)
  /\ UNCHANGED <<now, ledgerCase, nextTxId, inflight, others, dups, mempool, minted, lost>>
  /\ UNCHANGED <<contractVars, poolVars, userVars, response, cb>>

\* an event that is not a well-formed creation is delivered
DeliverOther(ev) ==
  /\ Ready
  /\ others < MaxOther
  /\ ev \in OtherEvents
  /\ Callback(ev)
  /\ others' = others + 1
  /\ UNCHANGED <<now, ledgerCase, nextTxId, inflight, dups>>
  /\ UNCHANGED ledgerVars
  /\ UNCHANGED <<contractVars, poolVars, userVars, response, cb>>

\* an event that was delivered before is delivered again
Redeliver(ev) ==
  /\ Ready
  /\ dups < MaxDup
  /\ ev \in delivered
  /\ Callback(ev)
  /\ dups' = dups + 1
  /\ UNCHANGED <<now, ledgerCase, nextTxId, inflight, others>>
  /\ UNCHANGED ledgerVars
  /\ UNCHANGED <<contractVars, poolVars, userVars, response, cb>>

\* ------------------------------------- the callback, statement by statement
\* Lines 580-596: the event is read, the pending entries of its creator are
\* filtered and sorted, and the oldest is destructured into txId and metadata.
StepEnter ==
  /\ Ready
  /\ stream # <<>>
  /\ LET ev == Head(stream)
         entries == creatorEntries(toLowerCase(ev.output.registeredBy))
         found == IsCreation(ev) /\ Len(entries) > 0
         first == sortedEntries(entries)[1]
     IN /\ cb' = IF found
                 THEN [pc |-> "write", event |-> ev, txId |-> first.txId,
                       metadata |-> first.metadata]
                 ELSE [pc |-> "emit", event |-> ev, txId |-> 0,
                       metadata |-> NoMetadata]
        /\ last' = IF found
                   THEN [event |-> ev, outcome |-> "matched", candidates |-> entries,
                         txId |-> first.txId,
                         second |-> /\ last.outcome = "matched"
                                    /\ last.candidates[1].metadata.createdBy
                                         = first.metadata.createdBy
                                    /\ Len(last.candidates) >= 2]
                   ELSE [event |-> ev,
                         outcome |-> IF IsCreation(ev) THEN "unmatched" ELSE "forwarded",
                         candidates |-> <<>>, txId |-> 0, second |-> FALSE]
        /\ unmatchedIds' = IF IsCreation(ev) /\ ~found
                           THEN unmatchedIds \cup {parseInt(ev.output.assetId)}
                           ELSE unmatchedIds
        /\ delivered' = delivered \cup {ev}
  /\ stream' = Tail(stream)
  /\ calls' = calls + 1
  /\ UNCHANGED <<now, ledgerCase, nextTxId, inflight, others, dups, mempool, minted,
                  lost, reconciledFrom, matchedTx, emits, lastEmit, response, halted, boot>>
  /\ UNCHANGED <<storeVars, contractVars, poolVars, userVars, observerVars>>

\* assetMetadata[assetId] = metadata
StepWrite ==
  /\ ~halted
  /\ cb.pc = "write"
  /\ LET assetId == parseInt(cb.event.output.assetId) IN
       /\ assetMetadata' = PutMetadata(assetId, cb.metadata)
       /\ reconciledFrom' =
            [k \in (DOMAIN reconciledFrom) \cup {assetId} |->
               IF k = assetId THEN cb.txId ELSE reconciledFrom[k]]
  /\ cb' = [cb EXCEPT !.pc = "delete"]
  /\ UNCHANGED <<now, ledgerCase, nextTxId, inflight, others, dups,
                  pendingAssetMetadata, matchedTx, unmatchedIds, response, halted, boot>>
  /\ UNCHANGED <<ledgerVars, callbackVars, contractVars, poolVars, userVars,
                  observerVars>>

\* delete pendingAssetMetadata[txId]
StepDelete ==
  /\ ~halted
  /\ cb.pc = "delete"
  /\ pendingAssetMetadata' = DeletePending(cb.txId)
  /\ matchedTx' = matchedTx \cup {cb.txId}
  /\ cb' = [cb EXCEPT !.pc = "emit"]
  /\ UNCHANGED <<now, ledgerCase, nextTxId, inflight, others, dups, assetMetadata,
                  reconciledFrom, unmatchedIds, response, halted, boot>>
  /\ UNCHANGED <<ledgerVars, callbackVars, contractVars, poolVars, userVars,
                  observerVars>>

\* io.emit moved before `assetMetadata[assetId] = metadata`
StepEmitBeforeWrite ==
  /\ ~halted
  /\ cb.pc = "write"
  /\ lastEmit # cb.event
  /\ Emit(cb.event)
  /\ UNCHANGED <<now, ledgerCase, nextTxId, inflight, others, dups, delivered, calls,
                  last, response, halted, boot, cb>>
  /\ UNCHANGED <<ledgerVars, storeVars, matchVars, contractVars, poolVars, userVars>>

\* io.emit(...), the last statement
StepEmit ==
  /\ ~halted
  /\ cb.pc = "emit"
  /\ Emit(cb.event)
  /\ cb' = [pc |-> "idle", event |-> NoEvent, txId |-> 0, metadata |-> NoMetadata]
  /\ UNCHANGED <<now, ledgerCase, nextTxId, inflight, others, dups, delivered, calls,
                  last, response, halted, boot>>
  /\ UNCHANGED <<ledgerVars, storeVars, matchVars, contractVars, poolVars, userVars>>

\* ------------------------------------------------------ the steps of init()
\* what the gateway may answer to the call at position i: a creation may be
\* refused with 409 when what it creates exists, and any call may fail
StepOutcomes(i) ==
  IF i \in CreationSteps THEN {"ok", "409", "500"} ELSE {"ok", "500"}

\* the record of a call at position i that was answered with outcome
Ran(i, outcome) ==
  [boot EXCEPT !.ran = @ \cup {InitSteps[i]},
               !.conflicts = IF outcome = "409" THEN @ \cup {InitSteps[i]} ELSE @,
               !.errors = IF outcome = "500" THEN @ \cup {InitSteps[i]} ELSE @]

\* the gateway refuses at most MaxFaults calls of one start
MayFail(outcome) ==
  outcome # "ok" => Cardinality(boot.conflicts \cup boot.errors) < MaxFaults

\* One call of a promise chain: generateContractInterface, then
\* createContractInterface, then createContractAPI. A call that is refused
\* rejects the chain: the calls left in it are skipped and the catch
\* swallows the rejection, logging when the status is 409.
ChainStep(outcome) ==
  /\ ~halted
  /\ boot.pc \in ChainSteps
  /\ outcome \in StepOutcomes(boot.pc)
  /\ MayFail(outcome)
  /\ boot' = [Ran(boot.pc, outcome) EXCEPT
               !.pc = IF outcome = "ok" THEN boot.pc + 1 ELSE ChainEnd(boot.pc) + 1]
  /\ UNCHANGED <<now, ledgerCase, nextTxId, inflight, others, dups, response,
                  halted, cb>>
  /\ UNCHANGED <<ledgerVars, storeVars, matchVars, callbackVars, contractVars,
                  poolVars, userVars, observerVars>>

\* await firefly.createContractAPIListener(...).catch(...)
ListenerStep(outcome) ==
  /\ ~halted
  /\ boot.pc \in ListenerSteps
  /\ outcome \in StepOutcomes(boot.pc)
  /\ MayFail(outcome)
  /\ boot' = [Ran(boot.pc, outcome) EXCEPT !.pc = boot.pc + 1]
  /\ UNCHANGED <<now, ledgerCase, nextTxId, inflight, others, dups, response,
                  halted, cb>>
  /\ UNCHANGED <<ledgerVars, storeVars, matchVars, callbackVars, contractVars,
                  poolVars, userVars, observerVars>>

\* io.on('connection', ...)
IoOnConnection ==
  /\ ~halted
  /\ boot.pc = 16
  /\ boot' = [Ran(boot.pc, "ok") EXCEPT !.pc = boot.pc + 1]
  /\ UNCHANGED <<now, ledgerCase, nextTxId, inflight, others, dups, response,
                  halted, cb>>
  /\ UNCHANGED <<ledgerVars, storeVars, matchVars, callbackVars, contractVars,
                  poolVars, userVars, observerVars>>

\* firefly.listen(sub, callback): the event callback is registered
FireflyListen ==
  /\ ~halted
  /\ boot.pc = 17
  /\ boot' = [Ran(boot.pc, "ok") EXCEPT !.pc = boot.pc + 1, !.listener = TRUE]
  /\ UNCHANGED <<now, ledgerCase, nextTxId, inflight, others, dups, response,
                  halted, cb>>
  /\ UNCHANGED <<ledgerVars, storeVars, matchVars, callbackVars, contractVars,
                  poolVars, userVars, observerVars>>

\* httpServer.listen(config.PORT, ...)
HttpServerListen ==
  /\ ~halted
  /\ boot.pc = 18
  /\ boot' = [Ran(boot.pc, "ok") EXCEPT !.pc = boot.pc + 1, !.listening = TRUE]
  /\ UNCHANGED <<now, ledgerCase, nextTxId, inflight, others, dups, response,
                  halted, cb>>
  /\ UNCHANGED <<ledgerVars, storeVars, matchVars, callbackVars, contractVars,
                  poolVars, userVars, observerVars>>

\* ------------------------------------- userIds that are not MEMBER_KEYS' own
\* the userIds request bodies carry: the members', one that names nothing,
\* and one that names a property every object inherits from Object.prototype
RequestUserIds == UserIds \cup {"member9", "constructor"}

\* the names an object literal answers to without having them as own keys
InheritedNames == {"constructor"}

\* what MEMBER_KEYS["constructor"] evaluates to: the function Object
ObjectFunction == [id |-> "function Object", cs |-> "none"]

\* const signingKey = MEMBER_KEYS[userId]: MEMBER_KEYS is an object literal,
\* so the read goes through its prototype chain
Lookup(userId) ==
  IF userId \in UserIds THEN MEMBER_KEYS[userId]
  ELSE IF userId \in InheritedNames THEN ObjectFunction
  ELSE Undefined

\* the routes that start with `const signingKey = MEMBER_KEYS[userId]`
Routes ==
  {"/api/user/register", "/api/asset/register", "/api/asset/checkout",
   "/api/asset/return"}

\* A request on one of these routes whose userId is not a key of MEMBER_KEYS.
\* `if (!signingKey)` answers 400 when the read gave undefined. When it gave
\* an inherited value the handler goes on and calls invokeContractAPI with
\* key: [Function]; whether the gateway refuses or accepts that call is not
\* decided in this source. Refused: the catch answers 500. Accepted: the
\* register-user handler throws at signingKey.toLowerCase() and answers 500;
\* the register-asset handler stores the intent with createdBy: [Function]
\* and answers 202; the checkout and return handlers answer 202. The command
\* is counted with the route's commands; the transaction it makes is signed
\* by no member and is not followed here.
RequestUnprovisioned(route, userId) ==
  /\ Ready
  /\ route \in Routes
  /\ userId \in RequestUserIds \ UserIds
  /\ IF Lookup(userId) = Undefined
     THEN /\ response' = Response(route, 400, "Invalid user ID")
          /\ UNCHANGED <<nextTxId, pendingAssetMetadata, regs, cmds>>
     ELSE \E accepted \in BOOLEAN :
            IF ~accepted
            THEN /\ response' = Response(route, 500, "ECONNREFUSED")
                 /\ UNCHANGED <<nextTxId, pendingAssetMetadata, regs, cmds>>
            ELSE CASE route = "/api/user/register" ->
                        /\ regs < MaxReg
                        /\ regs' = regs + 1
                        /\ response' = Response(route, 500, "TypeError")
                        /\ UNCHANGED <<nextTxId, pendingAssetMetadata, cmds>>
                   [] route = "/api/asset/register" ->
                        /\ nextTxId <= MaxReq
                        /\ nextTxId' = nextTxId + 1
                        /\ pendingAssetMetadata' = Append(pendingAssetMetadata,
                             [txId |-> nextTxId,
                              metadata |-> [description |-> Descriptions[nextTxId],
                                            createdBy |-> Lookup(userId),
                                            createdAt |-> now]])
                        /\ response' = Response(route, 202, "")
                        /\ UNCHANGED <<regs, cmds>>
                   [] OTHER ->
                        /\ cmds < MaxCmd
                        /\ cmds' = cmds + 1
                        /\ response' = Response(route, 202, "")
                        /\ UNCHANGED <<nextTxId, pendingAssetMetadata, regs>>
  /\ UNCHANGED <<now, ledgerCase, inflight, others, dups, assetMetadata, regPool,
                  cmdPool, halted, boot, cb>>
  /\ UNCHANGED <<ledgerVars, matchVars, callbackVars, contractVars, userVars,
                  observerVars>>

\* ------------------------------------------------- GET /api/user/:address
\* req.params.address: a member's address in either letter case
LookupAddresses == {[id |-> a, cs |-> c] : a \in Accounts, c \in LedgerCases}

\* the body sent; profile stands for the name of the profile found
UserResponse(status, error, profile) ==
  [route |-> "/api/user/:address", status |-> status, error |-> error,
   output |-> profile]

\* the test without the ledger's answer: `if (userProfiles[address])`
ProfileVisibleOffChainOnly(address) == toLowerCase(address) \in userProfiles

\* if (onChainResult.output && userProfiles[address]), address case-folded
ProfileVisible(address) ==
  /\ isUserRegistered(address.id)
  /\ toLowerCase(address) \in userProfiles

\* The handler awaits the isUserRegistered query and then reads
\* userProfiles; a failed query is answered 500.
GetUser(address) ==
  /\ Ready
  /\ address \in LookupAddresses
  /\ \E error \in {"ECONNREFUSED", "none"} :
       response' =
         IF error # "none" THEN UserResponse(500, error, Undefined)
         ELSE IF ProfileVisible(address)
              THEN UserResponse(200, "", toLowerCase(address))
              ELSE UserResponse(404, "User not registered", Undefined)
  /\ UNCHANGED <<now, ledgerCase, nextTxId, inflight, others, dups, halted, boot, cb>>
  /\ UNCHANGED <<ledgerVars, storeVars, matchVars, callbackVars, contractVars,
                  poolVars, userVars, observerVars>>

\* ------------------------------------------ GET /api/asset/:assetId/full
\* the body sent: on-chain state and off-chain metadata, null when absent
\* (NoMetadata stands for null)
FullResponse(status, error, onChain, offChain) ==
  [route |-> "/api/asset/:assetId/full", status |-> status, error |-> error,
   onChain |-> onChain, offChain |-> offChain]

\* The handler awaits the getAsset query and then reads assetMetadata; the
\* read is the step modelled here. A failed query is answered 500.
GetAssetFull(assetId) ==
  /\ Ready
  /\ \E error \in {"ECONNREFUSED", getAsset(assetId).error} :
       response' =
         IF error # "none"
         THEN FullResponse(500, error, EmptyAsset, NoMetadata)
         ELSE FullResponse(200, "", getAsset(assetId).output,
                           IF assetId \in DOMAIN assetMetadata
                           THEN assetMetadata[assetId] ELSE NoMetadata)
  /\ UNCHANGED <<now, ledgerCase, nextTxId, inflight, others, dups, halted, boot, cb>>
  /\ UNCHANGED <<ledgerVars, storeVars, matchVars, callbackVars, contractVars,
                  poolVars, userVars, observerVars>>

\* a client that holds the broadcast of a creation asks for the asset
QueryAfterBroadcast(o, i) ==
  /\ o \in connected
  /\ i \in 1..Len(inbox[o])
  /\ inbox[o][i].name = "AssetRegistered"
  /\ inbox[o][i].hasOutput
  /\ inbox[o][i].output.registeredBy # Undefined
  /\ GetAssetFull(parseInt(inbox[o][i].output.assetId))

\* ---------------------------------------------------- Socket.IO clients
\* a client connects and is sent the last message published before it came
ConnectWithReplay(o) ==
  /\ Ready
  /\ o \notin connected
  /\ connected' = connected \cup {o}
  /\ inbox' = [inbox EXCEPT ![o] = IF emits > 0 THEN <<Message(lastEmit, emits)>>
                                   ELSE <<>>]
  /\ joinedAt' = [joinedAt EXCEPT ![o] = emits]
  /\ UNCHANGED <<now, ledgerCase, nextTxId, inflight, others, dups, response, halted, boot,
                  cb, lastFailed>>
  /\ UNCHANGED <<ledgerVars, storeVars, matchVars, callbackVars, contractVars,
                  poolVars, userVars>>

\* io.on('connection'): the server logs the client's id and keeps nothing for
\* it; the client has received nothing yet.
Connect(o) ==
  /\ Ready
  /\ o \notin connected
  /\ connected' = connected \cup {o}
  /\ inbox' = [inbox EXCEPT ![o] = <<>>]
  /\ joinedAt' = [joinedAt EXCEPT ![o] = emits]
  /\ UNCHANGED <<now, ledgerCase, nextTxId, inflight, others, dups, response, halted, boot,
                  cb, lastFailed>>
  /\ UNCHANGED <<ledgerVars, storeVars, matchVars, callbackVars, contractVars,
                  poolVars, userVars>>

\* socket.on('disconnect'): the server logs the client's id
Disconnect(o) ==
  /\ Ready
  /\ o \in connected
  /\ connected' = connected \ {o}
  /\ inbox' = [inbox EXCEPT ![o] = <<>>]
  /\ joinedAt' = [joinedAt EXCEPT ![o] = 0]
  /\ UNCHANGED <<now, ledgerCase, nextTxId, inflight, others, dups, response, halted, boot,
                  cb, lastFailed>>
  /\ UNCHANGED <<ledgerVars, storeVars, matchVars, callbackVars, contractVars,
                  poolVars, userVars>>

\* --------------------------------------------------------- specifications
\* Spec, SpecReconcile, SpecRace, SpecForward, SpecSteps and SpecBroadcast
\* start with both members registered; SpecSubmit and SpecCommands with one;
\* SpecUsers and SpecLibrary from a fresh deployment.
\* Spec: everything the environment can do with register-asset requests.
\* SpecReconcile: the same without the events that are not well-formed
\* creations. SpecRace: request handlers, a ledger that confirms every
\* accepted command exactly once and each sender's commands in the order of
\* acceptance, and the callback.
Next ==
  \/ Tick
  \/ \E userId \in UserIds :
       SubmitRegisterAsset(userId, Descriptions[nextTxId])
  \/ \E h \in inflight : AckRegisterAsset(h)
  \/ \E c \in mempool : Mine(c)
  \/ \E c \in mempool : Drop(c)
  \/ Deliver
  \/ \E ev \in OtherEvents : DeliverOther(ev)
  \/ \E ev \in delivered : Redeliver(ev)

Spec == Init /\ [][Next]_vars

NextReconcile ==
  \/ Tick
  \/ \E userId \in UserIds :
       SubmitRegisterAsset(userId, Descriptions[nextTxId])
  \/ \E h \in inflight : AckRegisterAsset(h)
  \/ \E c \in mempool : Mine(c)
  \/ \E c \in mempool : Drop(c)
  \/ Deliver
  \/ \E ev \in delivered : Redeliver(ev)

SpecReconcile == Init /\ [][NextReconcile]_vars

NextRace ==
  \/ Tick
  \/ \E userId \in UserIds :
       SubmitRegisterAsset(userId, Descriptions[nextTxId])
  \/ \E h \in inflight : AckRegisterAsset(h)
  \/ \E c \in mempool : Mine(c)
  \/ Deliver

SpecRace == Init /\ [][NextRace]_vars

\* SpecForward: the request handlers, the ledger and the callback, with the
\* events that are not well-formed creations.
NextForward ==
  \/ \E userId \in UserIds :
       SubmitRegisterAsset(userId, Descriptions[nextTxId])
  \/ \E h \in inflight : AckRegisterAsset(h)
  \/ \E c \in mempool : Mine(c)
  \/ Deliver
  \/ \E ev \in OtherEvents : DeliverOther(ev)

SpecForward == Init /\ [][NextForward]_vars

\* the errors of the contract and of the connection to the gateway
Errors ==
  {"ECONNREFUSED", "NotRegistered", "AssetNotFound", "AssetNotAvailable",
   "AssetNotCheckedOut", "NotCurrentHolder"}

\* SpecSubmit: one member is registered and the other is not; the gateway
\* accepts, refuses or fails the submissions, and acknowledges the accepted
\* ones at any later time or never.
NextSubmit ==
  \/ Tick
  \/ \E userId \in UserIds :
       SubmitRegisterAsset(userId, Descriptions[nextTxId])
  \/ \E userId \in UserIds, error \in Errors :
       FailRegisterAsset(userId, error)
  \/ \E h \in inflight : AckRegisterAsset(h)
  \/ \E c \in mempool : Mine(c)
  \/ Deliver

SpecSubmit == InitOneMember /\ [][NextSubmit]_vars

\* SpecCommands: SpecSubmit without the clock and with the checkout and
\* return handlers and the commands they submit.
NextCommands ==
  \/ \E userId \in UserIds :
       SubmitRegisterAsset(userId, Descriptions[nextTxId])
  \/ \E userId \in UserIds, error \in Errors :
       FailRegisterAsset(userId, error)
  \/ \E h \in inflight : AckRegisterAsset(h)
  \/ \E c \in mempool : Mine(c)
  \/ Deliver
  \/ \E userId \in UserIds, assetId \in AssetIds : CheckoutAsset(userId, assetId)
  \/ \E userId \in UserIds, assetId \in AssetIds, error \in Errors :
       FailCheckoutAsset(userId, assetId, error)
  \/ \E userId \in UserIds, assetId \in AssetIds : ReturnAsset(userId, assetId)
  \/ \E userId \in UserIds, assetId \in AssetIds, error \in Errors :
       FailReturnAsset(userId, assetId, error)
  \/ \E c \in cmdPool : MineCommand(c)

SpecCommands == InitOneMember /\ [][NextCommands]_vars

\* SpecUsers: from a fresh deployment, the members register.
NextUsers ==
  \/ \E userId \in UserIds : SubmitRegisterUser(userId)
  \/ \E userId \in UserIds : AckRegisterUser(userId)
  \/ \E sender \in regPool : MineRegisterUser(sender)
  \/ Deliver
  \/ \E address \in LookupAddresses : GetUser(address)

SpecUsers == InitFresh /\ [][NextUsers]_vars

\* SpecSteps: the callback runs statement by statement among the request
\* handlers.
NextSteps ==
  \/ \E userId \in UserIds :
       SubmitRegisterAsset(userId, Descriptions[nextTxId])
  \/ \E h \in inflight : AckRegisterAsset(h)
  \/ \E c \in mempool : Mine(c)
  \/ StepEnter
  \/ StepWrite
  \/ StepDelete
  \/ StepEmit

SpecSteps == Init /\ [][NextSteps]_vars

\* SpecBroadcast: clients come and go while events are published.
NextBroadcast ==
  \/ \E o \in Observers : Connect(o)
  \/ \E o \in Observers : Disconnect(o)
  \/ \E userId \in UserIds :
       SubmitRegisterAsset(userId, Descriptions[nextTxId])
  \/ \E h \in inflight : AckRegisterAsset(h)
  \/ \E c \in mempool : Mine(c)
  \/ Deliver

SpecBroadcast == Init /\ [][NextBroadcast]_vars

\* SpecDuplicates: the ledger confirms every accepted command, and the
\* gateway may deliver an event again.
NextDuplicates ==
  \/ \E userId \in UserIds :
       SubmitRegisterAsset(userId, Descriptions[nextTxId])
  \/ \E h \in inflight : AckRegisterAsset(h)
  \/ \E c \in mempool : Mine(c)
  \/ Deliver
  \/ \E ev \in delivered : Redeliver(ev)

SpecDuplicates == Init /\ [][NextDuplicates]_vars

\* SpecCommit: the callback runs statement by statement while clients
\* connect and ask for the assets whose creation they were told of.
NextCommit ==
  \/ \E userId \in UserIds :
       SubmitRegisterAsset(userId, Descriptions[nextTxId])
  \/ \E h \in inflight : AckRegisterAsset(h)
  \/ \E c \in mempool : Mine(c)
  \/ StepEnter
  \/ StepWrite
  \/ StepDelete
  \/ StepEmit
  \/ \E o \in Observers : Connect(o)
  \/ \E o \in Observers, i \in 1..MaxReq : QueryAfterBroadcast(o, i)

SpecCommit == Init /\ [][NextCommit]_vars

\* SpecActors: the request handlers with any userId, and the ledger.
NextActors ==
  \/ \E userId \in UserIds :
       SubmitRegisterAsset(userId, Descriptions[nextTxId])
  \/ \E userId \in UserIds, error \in Errors :
       FailRegisterAsset(userId, error)
  \/ \E h \in inflight : AckRegisterAsset(h)
  \/ \E c \in mempool : Mine(c)
  \/ \E userId \in UserIds, assetId \in AssetIds : CheckoutAsset(userId, assetId)
  \/ \E userId \in UserIds, assetId \in AssetIds, error \in Errors :
       FailCheckoutAsset(userId, assetId, error)
  \/ \E userId \in UserIds, assetId \in AssetIds : ReturnAsset(userId, assetId)
  \/ \E userId \in UserIds, assetId \in AssetIds, error \in Errors :
       FailReturnAsset(userId, assetId, error)
  \/ \E c \in cmdPool : MineCommand(c)
  \/ \E route \in Routes, userId \in RequestUserIds \ UserIds :
       RequestUnprovisioned(route, userId)

SpecActors == InitOneMember /\ [][NextActors]_vars

\* SpecInit: a start of the process against a gateway that may already hold
\* what init() creates.
NextInit ==
  \/ \E outcome \in {"ok", "409", "500"} : ChainStep(outcome)
  \/ \E outcome \in {"ok", "409", "500"} : ListenerStep(outcome)
  \/ IoOnConnection
  \/ FireflyListen
  \/ HttpServerListen

SpecInit == InitStart /\ [][NextInit]_vars

\* SpecLibrary: the contract alone, called by any account.
NextLibrary ==
  \/ NewBlock
  \/ \E sender \in Accounts, name \in Names : CallRegisterUser(sender, name)
  \/ \E sender \in Accounts : CallRegisterAsset(sender)
  \/ \E sender \in Accounts, assetId \in AssetIds : CallCheckOut(sender, assetId)
  \/ \E sender \in Accounts, assetId \in AssetIds : CallReturnAsset(sender, assetId)

SpecLibrary == InitLibrary /\ [][NextLibrary]_vars

\* ------------------------------------------------------- shared vocabulary
\* the step is an invocation of the callback
CallbackStep == calls' = calls + 1

\* the step is an invocation with a well-formed creation event
CreationStep == CallbackStep /\ IsCreation(last'.event) /\ ~Throws(last'.event)

\* positions of the pending entries whose creator is actor (case-folded)
PendingOf(actor) ==
  {i \in 1..Len(pendingAssetMetadata) :
     pendingAssetMetadata[i].metadata.createdBy.id = actor.id}

\* in sequence s, the entry at i was submitted before the entry at j
SubmittedBefore(s, i, j) ==
  \/ s[i].metadata.createdAt < s[j].metadata.createdAt
  \/ s[i].metadata.createdAt = s[j].metadata.createdAt /\ i < j

\* among the positions idxs of s, the one submitted before all the others
Oldest(s, idxs) ==
  CHOOSE i \in idxs : \A j \in idxs \ {i} : SubmittedBefore(s, i, j)

WithoutIndex(s, i) == SubSeq(s, 1, i - 1) \o SubSeq(s, i + 1, Len(s))

PendingTxIds == {pendingAssetMetadata[i].txId : i \in 1..Len(pendingAssetMetadata)}

\* ------------------------------------------------------------------ claims
\* C1: under a ledger that confirms each sender's commands in the order it
\* accepted them, the record written for asset e carries the description of the
\* request whose command created e, in every interleaving of the request
\* handlers with the callback.
C1_RecordIsOfCreatingRequest ==
  \A e \in DOMAIN assetMetadata :
    /\ assetMetadata[e].description = Descriptions[minted[e]]
    /\ reconciledFrom[e] = minted[e]

\* C2: FIFO per actor. A creation confirmation for actor A that finds intents
\* of A pending records, under its assetId, the one submitted before all the
\* others (earlier createdAt, stored first among equals) and leaves the others
\* pending in their order; and when the previous invocation was a match for A
\* that left an intent I2 of A next in line, this confirmation takes I2.
C2_FifoPerActor ==
  [][CreationStep =>
       LET ev == last'.event
           e == parseInt(ev.output.assetId)
           mine == PendingOf(ev.output.registeredBy)
           prev == last.candidates
       IN /\ mine # {} =>
               \E i \in mine :
                 /\ \A j \in mine \ {i} : SubmittedBefore(pendingAssetMetadata, i, j)
                 /\ e \in DOMAIN assetMetadata'
                 /\ assetMetadata'[e] = pendingAssetMetadata[i].metadata
                 /\ pendingAssetMetadata' = WithoutIndex(pendingAssetMetadata, i)
          /\ ( /\ last.outcome = "matched"
               /\ last.event.output.registeredBy.id = ev.output.registeredBy.id
               /\ Len(prev) >= 2 ) =>
               \E i, k \in 1..Len(prev) :
                 /\ i # k
                 /\ prev[i].txId = last.txId
                 /\ \A j \in 1..Len(prev) \ {i, k} : SubmittedBefore(prev, k, j)
                 /\ last'.txId = prev[k].txId
                 /\ assetMetadata'[e] = prev[k].metadata
     ]_vars

\* C2 witness: two intents of one actor were pending with different createdAt,
\* two confirmations for that actor were handled one after the other, and the
\* second has just taken the second intent under another assetId.
C2_Witness ==
  /\ last.outcome = "matched"
  /\ last.second
  /\ \E e1, e2 \in DOMAIN assetMetadata :
       /\ e1 # e2
       /\ reconciledFrom[e2] = last.txId
       /\ assetMetadata[e1].createdBy = assetMetadata[e2].createdBy
       /\ assetMetadata[e1].createdAt < assetMetadata[e2].createdAt
       /\ reconciledFrom[e1] < reconciledFrom[e2]

\* C3: actor isolation. An entry leaves the pending store only in a callback
\* step for a creation event whose actor is, case-folded, the entry's creator;
\* and a record is written only for such an event's assetId with an intent of
\* that actor.
C3_ActorIsolation ==
  [][ /\ \A i \in 1..Len(pendingAssetMetadata) :
           pendingAssetMetadata[i].txId \notin
               {pendingAssetMetadata'[j].txId : j \in 1..Len(pendingAssetMetadata')}
           => /\ CreationStep
              /\ toLowerCase(pendingAssetMetadata[i].metadata.createdBy)
                   = toLowerCase(last'.event.output.registeredBy)
      /\ \A e \in DOMAIN assetMetadata' :
           (e \notin DOMAIN assetMetadata \/ assetMetadata'[e] # assetMetadata[e])
           => /\ CreationStep
              /\ e = parseInt(last'.event.output.assetId)
              /\ toLowerCase(assetMetadata'[e].createdBy)
                   = toLowerCase(last'.event.output.registeredBy)
    ]_vars

\* C3 witness: a confirmation for one actor has just been matched while an
\* older intent of the other actor was pending, and that intent is still
\* pending.
C3_Witness ==
  /\ last.outcome = "matched"
  /\ \E en \in Range(pendingAssetMetadata) :
       /\ en.metadata.createdBy.id # last.event.output.registeredBy.id
       /\ en.txId < last.txId
       /\ en.metadata.createdAt
            < assetMetadata[parseInt(last.event.output.assetId)].createdAt

\* C4: no double-matching. Every intent that was matched is gone from the
\* pending store and is the content of exactly one record.
C4_NoDoubleMatching ==
  \A tx \in matchedTx :
    /\ tx \notin PendingTxIds
    /\ Cardinality({e \in DOMAIN reconciledFrom : reconciledFrom[e] = tx}) = 1

\* C5: at-most-once reconciliation. Once asset e has a record, no step writes
\* or changes it.
C5_AtMostOnce ==
  [][\A e \in DOMAIN assetMetadata :
       /\ e \in DOMAIN assetMetadata'
       /\ assetMetadata'[e] = assetMetadata[e]
       /\ reconciledFrom'[e] = reconciledFrom[e]
       /\ ~(CreationStep /\ last'.outcome = "matched"
                         /\ parseInt(last'.event.output.assetId) = e)
    ]_vars

\* C6: idempotent commit. A commit for an assetId that has a record with the
\* same payload changes nothing and is not signalled; with a different payload
\* it is rejected and signalled, and the stored record stays.
C6_IdempotentCommit ==
  [][CreationStep =>
       LET ev == last'.event
           e == parseInt(ev.output.assetId)
           mine == PendingOf(ev.output.registeredBy)
       IN (e \in DOMAIN assetMetadata /\ mine # {}) =>
            LET intent == pendingAssetMetadata[Oldest(pendingAssetMetadata, mine)]
            IN /\ assetMetadata' = assetMetadata
               /\ last'.outcome = "rejected"
                    <=> intent.metadata.description # assetMetadata[e].description
    ]_vars

\* C7: orphan expiry. An intent whose command never confirms is out of the
\* pending store once the clock is past its createdAt plus the expiry window.
C7_OrphanExpiry ==
  \A en \in Range(pendingAssetMetadata) :
    en.txId \in lost => now <= en.metadata.createdAt + ExpiryWindow

\* C8: an intent whose own command is known never to confirm is not matched
\* to a creation confirmation, which can only belong to another command.
C8_StaleNeverMatched ==
  [][\A tx \in lost : tx \in matchedTx' => tx \in matchedTx]_vars

\* C9: unmatched is terminal. An asset whose confirmation was handled while
\* its actor had nothing pending has no record, then and ever after.
C9_UnmatchedTerminal ==
  \A e \in unmatchedIds : e \notin DOMAIN assetMetadata

\* C10: every event the callback receives is published.
C10_EveryEventPublished ==
  /\ emits = calls
  /\ calls > 0 => lastEmit = last.event

\* the transaction ids the gateway has returned to a handler in an
\* acknowledgment: those it issued, less those whose handler still awaits
Acknowledged ==
  {tx \in 1..(nextTxId - 1) : \A h \in inflight : h.tx # tx}

\* the step is a transaction sent to the contract (not a new block) that ran
\* the given method
CallStep(method) ==
  /\ blockTimestamp' = blockTimestamp
  /\ lastTx'.method = method

\* C11: an event whose name is not AssetRegistered triggers no reconciliation:
\* the callback step that handles it leaves the pending store and the
\* metadata store as they were and publishes one message with the event's
\* name and output as received.
C11_OtherEventsForwarded ==
  [][(CallbackStep /\ last'.event.name # "AssetRegistered") =>
       /\ UNCHANGED storeVars
       /\ last'.outcome = "forwarded"
       /\ emits' = emits + 1
       /\ lastEmit'.name = last'.event.name
       /\ lastEmit'.hasOutput = last'.event.hasOutput
       /\ lastEmit'.output = last'.event.output
    ]_vars

\* C11 witness: an AssetCheckedOut event has just been handled and published
\* while an intent was pending and a record was stored.
C11_Witness ==
  /\ last.outcome = "forwarded"
  /\ last.event.name = "AssetCheckedOut"
  /\ lastEmit = last.event
  /\ pendingAssetMetadata # <<>>
  /\ DOMAIN assetMetadata # {}

\* C12: no intent without a submitted command. A submission that the gateway
\* refuses or fails leaves both stores as they were; an entry enters the
\* pending store only in the step in which a handler receives the
\* acknowledgment carrying the entry's key, so a submission that is never
\* acknowledged stores nothing; and every pending entry's key is a
\* transaction id the gateway has returned in an acknowledgment.
C12_NoIntentWithoutCommand ==
  [][ /\ (response' # response /\ response'.status = 500) => UNCHANGED storeVars
      /\ \A tx \in PendingTxIds' \ PendingTxIds :
           \E h \in inflight \ inflight' : h.tx = tx
      /\ PendingTxIds' \subseteq Acknowledged'
    ]_vars

\* C12 witness: a submission has just been refused because its actor is not
\* registered, while one intent is pending and another accepted submission
\* has not been acknowledged.
C12_Witness ==
  /\ response.status = 500
  /\ response.error = "NotRegistered"
  /\ pendingAssetMetadata # <<>>
  /\ inflight # {}

\* C13: whenever the gateway refuses a register, checkout or return command
\* because the actor is not registered, the answer is the retryable 409 and
\* not the generic 500.
C13_RefusalIsRetryable ==
  response.error = "NotRegistered" => response.status = 409

\* C14: identity normalization. A creation confirmation handled while an
\* intent of its actor is pending is matched with an intent of that actor,
\* in whatever letter case the ledger reports the address and the intent
\* holds it.
C14_MatchWhateverCase ==
  [][CreationStep =>
       LET actor == last'.event.output.registeredBy
           e == parseInt(last'.event.output.assetId)
       IN PendingOf(actor) # {} =>
            /\ last'.outcome = "matched"
            /\ e \in DOMAIN assetMetadata'
            /\ assetMetadata'[e].createdBy.id = actor.id
    ]_vars

\* C14 witness: a confirmation whose address the ledger wrote in mixed case
\* has just been matched with an intent that holds the address in lower case.
C14_Witness ==
  /\ last.outcome = "matched"
  /\ last.event.output.registeredBy.cs = "mixed"
  /\ assetMetadata[parseInt(last.event.output.assetId)].createdBy.cs = "lower"
  /\ assetMetadata[parseInt(last.event.output.assetId)].createdBy.id
       = last.event.output.registeredBy.id

\* C15: strictly ordered processing. The callback starts on an event only
\* when it is at no statement of an earlier one, and the event it starts on
\* is the oldest undelivered one (the N-th invocation handles the N-th event
\* of the ledger); while the callback is at a statement, no request handler
\* takes a step and the stores change only by the callback's own write and
\* removal; and between invocations every matched intent is both written and
\* removed.
C15_OrderedProcessing ==
  [][ /\ CallbackStep =>
           /\ cb.pc = "idle"
           /\ last'.event = Head(stream)
           /\ parseInt(last'.event.output.assetId) = calls'
      /\ cb.pc # "idle" =>
           /\ UNCHANGED <<inflight, nextTxId, response, calls>>
           /\ assetMetadata' # assetMetadata => cb.pc = "write"
           /\ pendingAssetMetadata' # pendingAssetMetadata =>
                /\ cb.pc = "delete"
                /\ pendingAssetMetadata' = DeletePending(cb.txId)
      /\ cb.pc' = "idle" =>
           \A e \in DOMAIN reconciledFrom' :
             /\ reconciledFrom'[e] \notin PendingTxIds'
             /\ reconciledFrom'[e] \in matchedTx'
    ]_vars

\* C15 witness: the callback has written the record and not yet removed the
\* intent, while a request handler waits to resume and the next event waits
\* to be delivered.
C15_Witness ==
  /\ cb.pc = "delete"
  /\ cb.txId \in PendingTxIds
  /\ inflight # {}
  /\ stream # <<>>

\* C16: broadcast ordering. A connected client holds exactly the messages
\* published since it connected, in the order of publication, and that is the
\* order in which the events were handled: the k-th message published is of
\* the k-th event of the ledger.
C16_BroadcastOrder ==
  \A o \in connected :
    /\ Len(inbox[o]) = emits - joinedAt[o]
    /\ \A i \in 1..Len(inbox[o]) :
         /\ inbox[o][i].seq = joinedAt[o] + i
         /\ parseInt(inbox[o][i].output.assetId) = inbox[o][i].seq

\* C16 witness: two clients are connected, one since before the first event
\* and holding two messages, the other since later and holding fewer.
C16_Witness ==
  \E o1, o2 \in connected :
    /\ Len(inbox[o1]) >= 2
    /\ joinedAt[o1] = 0
    /\ joinedAt[o2] > 0
    /\ Len(inbox[o2]) >= 1

\* C17: no persistence or replay. A client that connects holds nothing; a
\* publish reaches no client that is not connected at that moment; and no
\* client ever holds a message published before it connected.
C17_NoReplay ==
  [][ /\ \A o \in connected' \ connected : inbox'[o] = <<>>
      /\ emits' # emits => \A o \in Observers \ connected : inbox'[o] = <<>>
      /\ \A o \in Observers : \A i \in 1..Len(inbox'[o]) :
           inbox'[o][i].seq > joinedAt'[o]
    ]_vars

\* C17 witness: a client connected after the first event was published, has
\* since received a later event, and does not hold the first.
C17_Witness ==
  \E o \in connected :
    /\ joinedAt[o] >= 1
    /\ Len(inbox[o]) >= 1
    /\ \A i \in 1..Len(inbox[o]) : inbox[o][i].seq # 1

\* C18: broadcast failure isolation. Whichever clients a publish fails to
\* reach, every other connected client receives the message, and the stores
\* end as the event alone determines: the oldest pending intent of the
\* event's actor is recorded and removed, or nothing changes if there is
\* none. A client's disconnect changes neither the stores nor what the other
\* clients hold.
C18_FailureIsolation ==
  [][ /\ (CallbackStep /\ emits' = emits + 1) =>
           LET ev == last'.event
               mine == PendingOf(ev.output.registeredBy)
           IN /\ \A o \in connected \cap connected' :
                   inbox'[o] = Append(inbox[o], Message(ev, emits'))
              /\ IF IsCreation(ev) /\ mine # {}
                 THEN LET i == Oldest(pendingAssetMetadata, mine) IN
                        /\ assetMetadata' =
                             PutMetadata(parseInt(ev.output.assetId),
                                         pendingAssetMetadata[i].metadata)
                        /\ pendingAssetMetadata' = WithoutIndex(pendingAssetMetadata, i)
                 ELSE UNCHANGED storeVars
      /\ (~CallbackStep /\ connected' # connected) =>
           /\ UNCHANGED storeVars
           /\ \A o \in connected \cap connected' : inbox'[o] = inbox[o]
    ]_vars

\* C18 witness: the latest publish failed to reach one client, the other
\* client received its message, and the event was matched.
C18_Witness ==
  /\ lastFailed # {}
  /\ last.outcome = "matched"
  /\ \E o \in connected :
       /\ inbox[o] # <<>>
       /\ inbox[o][Len(inbox[o])] = Message(last.event, emits)

\* C19: one bad event does not halt the stream. After an event whose
\* processing failed, the process is still running, so that the events that
\* follow are reconciled and published.
C19_BadEventDoesNotHalt ==
  (\E ev \in delivered : Throws(ev)) => ~halted

AssetMethods == {"registerAsset", "checkOut", "returnAsset"}

\* the contract's storage
storage == <<isRegistered, userNames, assets, nextAssetId>>

\* C21: only registered users can perform asset operations. registerAsset,
\* checkOut and returnAsset called by an address that is not registered
\* revert with NotRegistered, whatever the asset id and the asset's state,
\* leave the contract's storage as it was and emit no event; and an address
\* is registered only once its registerUser has run.
C21_OnlyRegistered ==
  [][ /\ \A m \in AssetMethods :
           (CallStep(m) /\ ~isRegistered[lastTx'.sender]) =>
             /\ lastTx'.error = "NotRegistered"
             /\ lastTx'.event = NoLog
             /\ UNCHANGED storage
      /\ \A a \in Accounts :
           (~isRegistered[a] /\ isRegistered'[a]) =>
             CallStep("registerUser") /\ lastTx'.sender = a
    ]_vars

\* C21 witness: an unregistered account's checkOut of an existing, available
\* asset has just reverted with NotRegistered.
C21_Witness ==
  /\ lastTx.method = "checkOut"
  /\ lastTx.error = "NotRegistered"
  /\ ~isRegistered[lastTx.sender]
  /\ AssetAt(lastTx.assetId).exists
  /\ AssetAt(lastTx.assetId).isAvailable

C23_SequentialIds ==
  [][ /\ \A id \in AssetIds \cup {getAssetCount + 1} :
           getAsset(id).error = "none" <=> id \in 1..getAssetCount
      /\ \A id \in 1..getAssetCount : getAsset(id).output.id = id
      /\ \A id \in 1..getAssetCount : id \in DOMAIN assets' /\ assets'[id].exists
      /\ IF CallStep("registerAsset") /\ lastTx'.error = "none"
         THEN /\ getAssetCount' = getAssetCount + 1
              /\ lastTx'.event.name = "AssetRegistered"
              /\ lastTx'.event.assetId = getAssetCount'
              /\ ~AssetAt(lastTx'.event.assetId).exists
              /\ assets'[getAssetCount'].exists
         ELSE /\ getAssetCount' = getAssetCount
              /\ DOMAIN assets' = DOMAIN assets
              /\ lastTx'.event.name # "AssetRegistered" \/ lastTx' = lastTx
    ]_vars

\* C23 witness: two assets are registered, the second has just been given
\* id 2, and the first has been checked out and returned or is held.
C23_Witness ==
  /\ getAssetCount = 2
  /\ lastTx.method = "registerAsset"
  /\ lastTx.error = "none"
  /\ lastTx.event.assetId = 2
  /\ getAsset(1).output.id = 1
  /\ ~getAsset(1).output.isAvailable

\* the entity ids of the creation confirmations delivered so far
ConfirmedIds ==
  {parseInt(ev.output.assetId) : ev \in {d \in delivered : IsCreation(d) /\ ~Throws(d)}}

\* C24: every entityId of the metadata store has at most one record, also
\* when the same entityId is confirmed more than once: the store's keys are
\* entity ids that were confirmed, each key holds one record with a
\* description, a creator and a creation time, and the store never holds
\* more records than there are confirmed entities.
C24_OneRecordPerEntity ==
  /\ DOMAIN assetMetadata \subseteq ConfirmedIds
  /\ Cardinality(DOMAIN assetMetadata) <= Cardinality(ConfirmedIds)
  /\ \A e \in DOMAIN assetMetadata :
       /\ DOMAIN assetMetadata[e] = {"description", "createdBy", "createdAt"}
       /\ assetMetadata[e].createdBy \in {MEMBER_KEYS[u] : u \in UserIds}

\* C24 witness: one entity was confirmed twice and each confirmation
\* consumed an intent, and the store holds one record for it.
C24_Witness ==
  /\ dups > 0
  /\ Cardinality(ConfirmedIds) = 1
  /\ Cardinality(matchedTx) = 2
  /\ DOMAIN assetMetadata = ConfirmedIds

\* C25: an unmatched creation confirmation (no pending intent of its actor)
\* leaves the pending store and the metadata store as they were; the
\* intents of other actors stay pending.
C25_UnmatchedChangesNothing ==
  [][CreationStep =>
       LET actor == last'.event.output.registeredBy IN
         PendingOf(actor) = {} =>
           /\ last'.outcome = "unmatched"
           /\ pendingAssetMetadata' = pendingAssetMetadata
           /\ assetMetadata' = assetMetadata
    ]_vars

\* C25 witness: a confirmation has just found no intent of its actor while
\* an intent of the other actor is pending, and the asset has no record.
C25_Witness ==
  /\ last.outcome = "unmatched"
  /\ pendingAssetMetadata # <<>>
  /\ PendingOf(last.event.output.registeredBy) = {}
  /\ parseInt(last.event.output.assetId) \notin DOMAIN assetMetadata

\* C27: a multiset of intents per actor. Storing a new intent adds one
\* entry under a transaction id that was not pending and leaves every other
\* entry, of the same actor and of the others, present and unchanged; a
\* creation confirmation for an actor removes exactly one entry of that
\* actor when it has any and none otherwise, so that k confirmations consume
\* k intents or all of them; no other step changes the pending store.
C27_MultisetPerActor ==
  [][ /\ Len(pendingAssetMetadata') > Len(pendingAssetMetadata) =>
           /\ Len(pendingAssetMetadata') = Len(pendingAssetMetadata) + 1
           /\ SubSeq(pendingAssetMetadata', 1, Len(pendingAssetMetadata))
                = pendingAssetMetadata
           /\ pendingAssetMetadata'[Len(pendingAssetMetadata')].txId \notin PendingTxIds
      /\ CreationStep =>
           LET mine == PendingOf(last'.event.output.registeredBy) IN
             IF mine = {}
             THEN pendingAssetMetadata' = pendingAssetMetadata
             ELSE \E i \in mine :
                    pendingAssetMetadata' = WithoutIndex(pendingAssetMetadata, i)
      /\ pendingAssetMetadata' # pendingAssetMetadata =>
           \/ CreationStep
           \/ Len(pendingAssetMetadata') > Len(pendingAssetMetadata)
    ]_vars

\* C27 witness: an actor had two intents pending at once, a confirmation
\* has consumed one of them, and the other is still pending.
C27_Witness ==
  /\ last.outcome = "matched"
  /\ Len(last.candidates) = 2
  /\ Cardinality(PendingOf(last.event.output.registeredBy)) = 1
  /\ pendingAssetMetadata[1] = last.candidates[2]

\* the step is the answer to a GET /api/asset/:assetId/full
FullStep ==
  response' # response /\ response'.route = "/api/asset/:assetId/full"

\* C26: commit precedes broadcast. When the event of a matched creation
\* confirmation is published, the record of its entity is in the metadata
\* store and its intent is out of the pending store; no record is ever
\* removed; so a client that holds the broadcast and asks for the entity is
\* answered with the entity's record as offChain, never with null, whenever
\* the entity's confirmation found an intent and the ledger query succeeds.
C26_CommitPrecedesBroadcast ==
  [][ /\ (emits' = emits + 1 /\ last.outcome = "matched") =>
           LET e == parseInt(lastEmit'.output.assetId) IN
             /\ lastEmit' = last.event
             /\ e \in DOMAIN assetMetadata
             /\ assetMetadata[e] = cb.metadata
             /\ cb.txId \notin PendingTxIds
             /\ cb.txId = last.txId
      /\ \A e \in DOMAIN assetMetadata :
           e \in DOMAIN assetMetadata' /\ assetMetadata'[e] = assetMetadata[e]
      /\ (FullStep /\ response'.status = 200) =>
           LET e == response'.onChain.id IN
             /\ \E o \in connected : \E i \in 1..Len(inbox[o]) :
                  /\ inbox[o][i].name = "AssetRegistered"
                  /\ parseInt(inbox[o][i].output.assetId) = e
             /\ e \notin unmatchedIds =>
                  /\ e \in DOMAIN assetMetadata
                  /\ response'.offChain = assetMetadata[e]
                  /\ response'.offChain # NoMetadata
    ]_vars

\* C26 witness: a client that was told of the creation of an asset has asked
\* for it and was answered with the record the confirmation committed.
C26_Witness ==
  /\ response.route = "/api/asset/:assetId/full"
  /\ response.status = 200
  /\ response.offChain # NoMetadata
  /\ response.offChain = assetMetadata[response.onChain.id]
  /\ last.outcome = "matched"
  /\ \E o \in connected :
       /\ inbox[o] # <<>>
       /\ inbox[o][Len(inbox[o])].seq = emits
       /\ parseInt(inbox[o][Len(inbox[o])].output.assetId) = response.onChain.id
       /\ last.event = lastEmit
       /\ parseInt(lastEmit.output.assetId) = response.onChain.id

\* C28: the actor set is closed. A register-user, register-asset, checkout
\* or return request whose userId is not one of the provisioned identities
\* is answered 400 'Invalid user ID', submits no command to the gateway and
\* leaves the user-profile, pending and metadata stores as they were; every
\* pending intent's createdBy is one of the provisioned addresses.
C28_ClosedActorSet ==
  [][ /\ \A route \in Routes, userId \in RequestUserIds \ UserIds :
           RequestUnprovisioned(route, userId) =>
             /\ response' = Response(route, 400, "Invalid user ID")
             /\ UNCHANGED <<userProfiles, pendingAssetMetadata, assetMetadata>>
             /\ UNCHANGED <<nextTxId, regs, cmds, inflight, mempool, regPool, cmdPool>>
      /\ \A en \in Range(pendingAssetMetadata') :
           en.metadata.createdBy \in {MEMBER_KEYS[u] : u \in UserIds}
    ]_vars

\* C29: the user lookup answers with the profile only when the ledger has
\* the address registered and a profile is stored under the case-folded
\* address; when the ledger answered and either is missing, as in the window
\* between the acknowledgement of a registration and its confirmation, it
\* answers 404 'User not registered'; it changes nothing.
C29_LookupNeedsBoth ==
  [][\A address \in LookupAddresses :
       GetUser(address) =>
         LET both == /\ isRegistered[address.id]
                     /\ [id |-> address.id, cs |-> "lower"] \in userProfiles
         IN /\ response'.status \in {200, 404, 500}
            /\ response'.status = 200 =>
                 /\ both
                 /\ response'.output = [id |-> address.id, cs |-> "lower"]
            /\ response'.status = 404 =>
                 ~both /\ response'.error = "User not registered"
            /\ response'.status = 500 => response'.error = "ECONNREFUSED"
            /\ UNCHANGED <<userProfiles, isRegistered, regPool, regInflight>>
    ]_vars

\* C29 witness: a registration was acknowledged and its profile stored, its
\* command is not yet confirmed on the ledger, and the lookup has just
\* answered 'User not registered'.
C29_Witness ==
  /\ response.route = "/api/user/:address"
  /\ response.status = 404
  /\ userProfiles # {}
  /\ regPool # {}
  /\ \A a \in Accounts : ~isRegistered[a]

\* C30: init() tolerates 'already exists'. When an interface, API or listener
\* creation is answered 409 the conflict is ignored and the call that follows
\* it in init() runs next; a start in which nothing but conflicts was
\* answered runs every call of init(), registers the event callback and
\* starts the server; the server listens only once the event callback is
\* registered.
C30_InitToleratesConflict ==
  [][ /\ (boot.pc <= Len(InitSteps) /\ InitSteps[boot.pc] \in boot'.conflicts) =>
           boot'.pc = boot.pc + 1
      /\ (boot'.pc > Len(InitSteps) /\ boot'.errors = {}) =>
           /\ boot'.ran = {InitSteps[i] : i \in 1..Len(InitSteps)}
           /\ boot'.listener
           /\ boot'.listening
      /\ boot'.listening => boot'.listener
    ]_vars

\* C33: for every existing asset of the contract, isAvailable holds exactly
\* when currentHolder is address(0) and exactly when checkoutTime is 0; a
\* checked-out asset has a holder that is an account and is registered.
C33_AssetConsistency ==
  \A id \in DOMAIN assets :
    LET a == assets[id] IN
      /\ a.exists
      /\ a.id = id
      /\ a.isAvailable <=> a.currentHolder = ZeroAddress
      /\ a.isAvailable <=> a.checkoutTime = 0
      /\ ~a.isAvailable =>
           /\ a.currentHolder \in Accounts
           /\ isRegistered[a.currentHolder]

\* C33 witness: one asset is held, with its checkout time, and another has
\* just been returned and is available with no holder.
C33_Witness ==
  /\ lastTx.method = "returnAsset"
  /\ lastTx.error = "none"
  /\ assets[lastTx.assetId].isAvailable
  /\ assets[lastTx.assetId].currentHolder = ZeroAddress
  /\ \E id \in DOMAIN assets :
       /\ ~assets[id].isAvailable
       /\ assets[id].checkoutTime > 0

\* the step emits the event name for asset id
Emits(name, id) ==
  /\ lastTx' # lastTx
  /\ lastTx'.event.name = name
  /\ lastTx'.event.assetId = id

\* C34: for every asset the AssetCheckedOut and AssetReturned events
\* alternate, starting with AssetCheckedOut after the asset's
\* AssetRegistered, and an AssetReturned names the user of the
\* AssetCheckedOut before it. Stated step by step: AssetRegistered is emitted
\* for an id without asset and leaves the asset available; AssetCheckedOut
\* is emitted only for an available asset and leaves it held by the user it
\* names; AssetReturned is emitted only for a held asset, names its holder
\* and leaves it available; and an asset's availability and holder change in
\* no step that does not emit the corresponding event. So an asset is
\* available exactly when its last event is AssetRegistered or
\* AssetReturned, and held by u exactly when it is AssetCheckedOut naming u.
C34_EventsAlternate ==
  [][\A id \in AssetIds \cup {nextAssetId} :
       /\ Emits("AssetRegistered", id) =>
            /\ ~AssetAt(id).exists
            /\ assets'[id].exists /\ assets'[id].isAvailable
       /\ Emits("AssetCheckedOut", id) =>
            /\ AssetAt(id).exists /\ AssetAt(id).isAvailable
            /\ ~assets'[id].isAvailable
            /\ assets'[id].currentHolder = lastTx'.event.user
            /\ lastTx'.event.user = lastTx'.sender
       /\ Emits("AssetReturned", id) =>
            /\ AssetAt(id).exists /\ ~AssetAt(id).isAvailable
            /\ AssetAt(id).currentHolder = lastTx'.event.user
            /\ assets'[id].isAvailable
       /\ (id \in DOMAIN assets /\ assets'[id] # assets[id]) =>
            \/ Emits("AssetCheckedOut", id) /\ assets[id].isAvailable
            \/ Emits("AssetReturned", id) /\ ~assets[id].isAvailable
       /\ (id \notin DOMAIN assets /\ id \in DOMAIN assets') =>
            Emits("AssetRegistered", id)
    ]_vars

\* C34 witness: an asset that was registered and checked out has just been
\* returned in a later block: AssetReturned names the account that held it,
\* and the other account holds another asset.
C34_Witness ==
  /\ lastTx.event.name = "AssetReturned"
  /\ lastTx.event.user = lastTx.sender
  /\ lastTx.event.timestamp > 1
  /\ assets[lastTx.event.assetId].isAvailable
  /\ \E id \in DOMAIN assets :
       assets[id].currentHolder \in Accounts \ {lastTx.event.user}

\* C35: a checked-out asset can always be returned. Registration is never
\* revoked; in every state the holder of a checked-out asset is registered,
\* and a returnAsset by the holder succeeds and leaves the asset available
\* with no holder; a checkOut of an available asset by any registered
\* account succeeds.
C35_HolderCanReturn ==
  [][ /\ \A a \in Accounts : isRegistered[a] => isRegistered'[a]
      /\ \A id \in DOMAIN assets :
           ~assets[id].isAvailable => isRegistered[assets[id].currentHolder]
      /\ (CallStep("returnAsset") /\ lastTx' # lastTx) =>
           LET id == lastTx'.assetId IN
             (/\ AssetAt(id).exists
              /\ ~AssetAt(id).isAvailable
              /\ AssetAt(id).currentHolder = lastTx'.sender) =>
               /\ lastTx'.error = "none"
               /\ assets'[id].isAvailable
               /\ assets'[id].currentHolder = ZeroAddress
      /\ (CallStep("checkOut") /\ lastTx' # lastTx) =>
           LET id == lastTx'.assetId IN
             (/\ AssetAt(id).exists
              /\ AssetAt(id).isAvailable
              /\ isRegistered[lastTx'.sender]) =>
               /\ lastTx'.error = "none"
               /\ assets'[id].currentHolder = lastTx'.sender
    ]_vars

\* C35 witness: the holder of an asset called registerUser again while
\* holding it and has now returned it; the asset is available and both
\* accounts are registered.
C35_Witness ==
  /\ lastTx.method = "returnAsset"
  /\ lastTx.error = "none"
  /\ userNames[lastTx.sender] = "Peter"
  /\ assets[lastTx.assetId].isAvailable
  /\ \A a \in Accounts : isRegistered[a]

\* C31: a repeated delivery of the creation confirmation of an entity that
\* already has its record consumes no pending intent: the pending store is
\* the same before and after the duplicate is processed.
C31_DuplicateConsumesNothing ==
  [][CreationStep =>
       LET e == parseInt(last'.event.output.assetId) IN
         (e \in DOMAIN assetMetadata /\ last'.event \in delivered) =>
           pendingAssetMetadata' = pendingAssetMetadata
    ]_vars

\* C32: among the pending intents of one actor, the order used for matching
\* (createdAt, ties in the order of the entries) is the order in which the
\* gateway accepted the actor's commands, whatever the order in which the
\* acknowledgments came back to the handlers.
C32_OrderIsSubmissionOrder ==
  \A i, j \in 1..Len(pendingAssetMetadata) :
    (/\ pendingAssetMetadata[i].metadata.createdBy
          = pendingAssetMetadata[j].metadata.createdBy
     /\ pendingAssetMetadata[i].txId < pendingAssetMetadata[j].txId) =>
      SubmittedBefore(pendingAssetMetadata, i, j)

====
